---- MODULE Spec2Model ----
(***************************************************************************)
(* FPTU Study Calendar: the background service worker's scrape            *)
(* orchestrator (src/background.js) as a state machine.                    *)
(*                                                                         *)
(* State: chrome.storage.local (login cache, first-run marker, stored      *)
(* classes), the browser's FAP tabs, the wall clock, the user's session    *)
(* with the FAP site, and, for every invocation of startScraping, its      *)
(* local variables and its position in the function.  Every `await' that   *)
(* another invocation or the user can observe is a separate step.          *)
(***************************************************************************)
EXTENDS Integers, Sequences, FiniteSets, TLC

----------------------------------------------------------------------------
(* Program constants (src/background.js:6,8). *)
MAX_RETRIES == 3
LOGIN_CACHE_DURATION == 30 * 60 * 1000

(* Bounds of the model. *)
MaxWeeks == 2
MaxTicks == 2
MaxTabs == 1

(* Invocations of startScraping that may be in flight at once: the message *)
(* listener starts one per message.                                        *)
Runs == {1, 2}

TabIds == 1..MaxTabs
NoTab == 0

(* Store model: most classes in the store, slot times and href ids. *)
MaxClasses == 2
MaxTime == 2
Times == 1..MaxTime
Ids == {"1"}

(* An optional value: <<>> is JavaScript null, <<v>> is the value v. *)
None == <<>>
Some(v) == <<v>>

(* JavaScript values of a message field, with ===, truthiness and ||. *)
JsString(s) == [type |-> "string", value |-> s]
JsBoolean(b) == [type |-> "boolean", value |-> IF b THEN "true" ELSE "false"]
StrictEquals(a, b) == a.type = b.type /\ a.value = b.value
Truthy(a) == IF a.type = "boolean" THEN a.value = "true" ELSE a.value # ""
OrElse(a, b) == IF Truthy(a) THEN a ELSE b

----------------------------------------------------------------------------
(* Error messages.  A message is the sequence of its words, so that        *)
(* String.prototype.includes is computed, not assumed.                     *)
MsgNotLoggedIn == <<"NOT_LOGGED_IN">>
MsgSelectFailed == <<"Failed", "to", "select", "week">>
MsgNoTab == <<"No", "tab", "with", "id">>
MsgFrameRemoved == <<"Frame", "was", "removed">>
MsgCannotAccessLogin == <<"Cannot", "access", "contents", "of", "url", "Login">>
MsgUnauthorized == <<"unauthorized">>

Includes(msg, word) == \E k \in 1..Len(msg) : msg[k] = word

(* src/background.js:1066-1067 *)
IsAuthErrorNever(msg) == FALSE
IsAuthError(msg) ==
    \/ Includes(msg, "login")
    \/ Includes(msg, "Login")
    \/ Includes(msg, "NOT_LOGGED_IN")
    \/ Includes(msg, "unauthorized")

(* What the injection of content.js (src/background.js:1032) can do on an  *)
(* open tab: resolve, or reject with one of the browser's messages.        *)
InjectErrors == {MsgFrameRemoved, MsgCannotAccessLogin, MsgUnauthorized}

(* What the week's page can hold when extraction runs. *)
PageKinds == {"classes", "noRows", "noTable", "throws"}

----------------------------------------------------------------------------
VARIABLES
    now,                \* Date.now(), in milliseconds
    userLoggedIn,       \* the user's session with the FAP site is valid
    tabs,               \* tab id -> "none" | "login" | "home" | "timetable"
    loginCache,         \* storage[LOGIN_CACHE_KEY]: None or <<[isLoggedIn, timestamp]>>
    firstRunCompleted,  \* storage[FIRST_RUN_COMPLETED_KEY]
    scrapedClasses,     \* storage.scrapedClasses: sequence of class records
    run,                \* invocation -> its local variables and position
    lastNotLoggedIn,    \* the invocation that finished last failed with NOT_LOGGED_IN (history)
    allClasses,         \* the calendar page's allClasses
    currentEditingClass, \* the calendar page's currentEditingClass: None or <<class>>
    lastOp,             \* the last operation on the store and its inputs (history)
    filterCall,         \* a call of filterWeeksByRange: its arguments, time zone and result
    fnCall              \* a call of a function of the page or of the exporter: None or
                        \* <<[fn, its arguments, result]>>

vars == <<now, userLoggedIn, tabs, loginCache, firstRunCompleted,
          scrapedClasses, run, lastNotLoggedIn,
          allClasses, currentEditingClass, lastOp, filterCall, fnCall>>

calendar == <<allClasses, currentEditingClass, lastOp, filterCall, fnCall>>

env == <<now, userLoggedIn>>
storage == <<loginCache, firstRunCompleted, scrapedClasses>>

(* No operation on the store yet. *)
NoOp == [op |-> "none", newClasses |-> <<>>,
         mergeMode |-> JsString("replace"), formData |-> None]

IdleRun ==
    [ pc |-> "idle",
      mergeMode |-> JsString("replace"),
      isFirstRunFlag |-> FALSE,
      cachedLoginState |-> None,
      fapTab |-> NoTab,
      timetableTab |-> NoTab,
      shouldCloseTab |-> FALSE,
      tabToClose |-> NoTab,
      scrapingSuccessful |-> FALSE,
      weeksToScrape |-> <<>>,
      i |-> 1,
      retries |-> 0,
      allWeeksData |-> <<>>,
      errors |-> <<>>,
      error |-> <<>>,
      result |-> None,
      \* history of the invocation, read by the properties only
      created |-> NoTab,
      removed |-> {},
      loginSource |-> "none",
      attempts |-> 0,
      page |-> "",
      authError |-> FALSE,
      verified |-> None,
      completion |-> None,
      \* the popup that sent the message and the listener's responseSent
      listener |-> TRUE,
      responseSent |-> FALSE,
      \* history of the request, read by the properties only
      undelivered |-> FALSE,
      responses |-> 0,
      saved |-> FALSE ]

Init ==
    /\ now = 0
    /\ userLoggedIn \in BOOLEAN
    /\ tabs = [t \in TabIds |-> "none"]
    /\ loginCache = None
    /\ firstRunCompleted = FALSE
    /\ scrapedClasses = <<>>
    /\ run = [r \in Runs |-> IdleRun]
    /\ lastNotLoggedIn = FALSE
    /\ allClasses = <<>>
    /\ currentEditingClass = None
    /\ lastOp = NoOp
    /\ filterCall = None
    /\ fnCall = None

----------------------------------------------------------------------------
(* Storage helpers (src/background.js:15-91). *)

CacheFreshOrEqual(timestamp, t) == t - timestamp <= LOGIN_CACHE_DURATION
(* src/background.js:22 *)
CacheFresh(timestamp, t) == t - timestamp < LOGIN_CACHE_DURATION

getCachedLoginState(cache, t) ==
    IF cache # None /\ CacheFresh(cache[1].timestamp, t)
    THEN Some(cache[1].isLoggedIn)
    ELSE None

saveLoginStateToCache(isLoggedIn, t) ==
    Some([isLoggedIn |-> isLoggedIn, timestamp |-> t])

isFirstRun(marker) == ~marker

----------------------------------------------------------------------------
(* Tabs and pages. *)

OpenTabs == {t \in TabIds : tabs[t] # "none"}

(* A tab id no open tab has and no invocation in flight still holds. *)
FreeTabIds ==
    {t \in TabIds :
        /\ tabs[t] = "none"
        /\ \A r \in Runs :
              run[r].pc # "returned" =>
                  t \notin {run[r].fapTab, run[r].timetableTab, run[r].tabToClose}}

(* The page a tab shows after loading a FAP url: without a valid session   *)
(* the site answers with its login page.                                   *)
Load(page) == IF userLoggedIn THEN page ELSE "login"

(* src/background.js:94-112; a closed tab makes executeScript reject, which *)
(* the function catches and answers false.                                  *)
isOnTimetablePage(tabId) == tabs[tabId] = "timetable"

(* src/background.js:182-192: #ctl00_divUser present and no login button. *)
PageLoggedIn(page) == page \in {"home", "timetable"}

(* src/background.js:115-143: the results findExistingFAPTab can give; the *)
(* empty set stands for null.                                               *)
findExistingFAPTab ==
    IF \E t \in OpenTabs : isOnTimetablePage(t)
    THEN {t \in OpenTabs : isOnTimetablePage(t)}
    ELSE OpenTabs

(* src/background.js:146-207 *)
checkLogin(tabId, forceCheck) ==
    LET cached == getCachedLoginState(loginCache, now) IN
    IF ~forceCheck /\ cached # None
    THEN [isLoggedIn |-> cached[1], cache |-> loginCache, source |-> "cache"]
    ELSE IF tabs[tabId] = "none"
    THEN [isLoggedIn |-> FALSE, cache |-> None, source |-> "failed"]
    ELSE [isLoggedIn |-> PageLoggedIn(tabs[tabId]),
          cache |-> saveLoginStateToCache(PageLoggedIn(tabs[tabId]), now),
          source |-> "page"]

(* The error that reaches the catch block when the code alerts the user    *)
(* and then throws NOT_LOGGED_IN: the alert is an executeScript and        *)
(* rejects on a closed tab (src/background.js:764-770, 782-788, 829-835).  *)
AlertThenNotLoggedIn(tabId) ==
    IF tabs[tabId] = "none" THEN MsgNoTab ELSE MsgNotLoggedIn

----------------------------------------------------------------------------
(* Store (src/background.js:1182-1235). *)

ActivityId(c) == c.activityId

RECURSIVE flattenWeeksToClasses(_)
flattenWeeksToClasses(weeks) ==
    IF weeks = <<>> THEN <<>>
    ELSE Head(weeks).classes \o flattenWeeksToClasses(Tail(weeks))

FindIndex(list, id) ==
    IF \E k \in 1..Len(list) : ActivityId(list[k]) = id
    THEN CHOOSE k \in 1..Len(list) :
            /\ ActivityId(list[k]) = id
            /\ \A j \in 1..(k - 1) : ActivityId(list[j]) # id
    ELSE 0

mergeClassesAppends(existingClasses, newClasses) == existingClasses \o newClasses

mergeClassesKeepsNew(existingClasses, newClasses) == newClasses

RECURSIVE mergeClasses(_, _)
mergeClasses(existingClasses, newClasses) ==
    IF newClasses = <<>> THEN existingClasses
    ELSE LET c == Head(newClasses)
             k == FindIndex(existingClasses, ActivityId(c))
         IN mergeClasses(IF k # 0 THEN [existingClasses EXCEPT ![k] = c]
                                  ELSE Append(existingClasses, c),
                         Tail(newClasses))

saveScrapedClasses(weeks, mergeMode) ==
    IF Len(scrapedClasses) > 0 /\ StrictEquals(mergeMode, JsString("merge"))
    THEN mergeClasses(scrapedClasses, flattenWeeksToClasses(weeks))
    ELSE flattenWeeksToClasses(weeks)

----------------------------------------------------------------------------
(* Extraction (src/content.js:303-386, src/background.js:359-415). *)

(* parseTime (src/content.js:11-19): the text of the time label is either  *)
(* of the form (H:MM-H:MM), here the pair of its times, or not, here       *)
(* None; the two times are taken as they stand.                            *)
parseTime(timeStr) ==
    IF timeStr = None THEN None
    ELSE Some([start |-> timeStr[1][1], end |-> timeStr[1][2]])

(* extractClassData (src/content.js:82-223) of a paragraph with its link:  *)
(* href.match(/id=(\d+)/) gives the activityId, '' without a match; a      *)
(* paragraph whose time does not parse gives null.  `rich' stands for a    *)
(* paragraph with online indicator, EduNext and materials links and a      *)
(* relocated room.                                                         *)
extractClassData(p) ==
    LET time == parseTime(p.timeStr) IN
    IF time = None THEN None
    ELSE Some([activityId |-> IF p.id = None THEN "" ELSE p.id[1],
               subjectCode |-> "A",
               slot |-> IF p.rich THEN 2 ELSE 1,
               time |-> time[1],
               isOnline |-> p.rich,
               meetUrl |-> None,
               edunextUrl |-> IF p.rich THEN Some("edunext") ELSE None,
               materialsUrl |-> IF p.rich THEN Some("materials") ELSE None,
               isRelocated |-> p.rich])

(* The containers whose class data is not null, in order                   *)
(* (src/content.js:52-60, 62-75).                                          *)
RECURSIVE ExtractEach(_)
ExtractEach(containers) ==
    IF containers = <<>> THEN <<>>
    ELSE LET classData == extractClassData(Head(containers)) IN
         (IF classData = None THEN <<>> ELSE <<classData[1]>>)
             \o ExtractEach(Tail(containers))

(* What extractClassData reads for the k-th link of a cell without         *)
(* paragraphs: the link's own href, and from the container, which is the   *)
(* cell, the first time label and the first links of each kind             *)
(* (container.querySelector).                                              *)
CellContainer(entries, k) ==
    [id |-> entries[k].id,
     timeStr |-> entries[1].timeStr,
     rich |-> \E j \in 1..Len(entries) : entries[j].rich]

(* extractClassFromCell (src/content.js:34-79).  A cell is its class       *)
(* entries (a link, a time label), each in a paragraph of its own or all   *)
(* directly in the cell.                                                   *)
extractClassFromCell(cell) ==
    IF cell.entries = <<>> THEN <<>>
    ELSE IF cell.inParagraphs THEN ExtractEach(cell.entries)
    ELSE ExtractEach([k \in 1..Len(cell.entries) |-> CellContainer(cell.entries, k)])

(* The cell whose paragraphs are `paragraphs'. *)
CellOf(paragraphs) == [inParagraphs |-> TRUE, entries |-> paragraphs]

(* The paragraph of the class of week `week' on the timetable page. *)
ParagraphOf(week) == [id |-> Some(ToString(week)), timeStr |-> Some(<<1, 2>>), rich |-> FALSE]

(* The page of week `week' when extraction runs. *)
PageOf(kind, week) == [kind |-> kind, cells |-> <<CellOf(<<ParagraphOf(week)>>)>>]

(* rows.forEach over the cells of the table (src/content.js:339-376) *)
RECURSIVE ExtractCells(_)
ExtractCells(cells) ==
    IF cells = <<>> THEN <<>>
    ELSE extractClassFromCell(Head(cells)) \o ExtractCells(Tail(cells))

(* extractScheduleData (src/content.js:226-387): a found table gives the   *)
(* classes of its cells; a missing table, a table without parseable rows   *)
(* and an exception all give [].                                           *)
extractScheduleData(page) ==
    IF page.kind = "classes" THEN ExtractCells(page.cells) ELSE <<>>

(* extractWeekData: `result.data || []`, and [] from its own catch. *)
extractWeekData(kind, week) == extractScheduleData(PageOf(kind, week))

(* Array.isArray(weekData), src/background.js:1051 *)
IsArray(weekData) == DOMAIN weekData = 1..Len(weekData)

RetryExhaustedLate(retries) == retries > MAX_RETRIES
(* src/background.js:1021, 1074 *)
RetryExhausted(retries) == retries >= MAX_RETRIES

ShouldCleanupAlways(rec) == rec.shouldCloseTab /\ rec.tabToClose # NoTab
(* src/background.js:1169 *)
ShouldCleanup(rec) ==
    rec.shouldCloseTab /\ rec.tabToClose # NoTab /\ ~rec.scrapingSuccessful

----------------------------------------------------------------------------
(* The message listener and startScraping, one step per observable await. *)

Set(r, rec) == run' = [run EXCEPT ![r] = rec]

(* message.mergeMode as the popup's click handlers send it: the strings    *)
(* 'replace' and 'merge' (src/popup.js:97-104) or a boolean that is true   *)
(* for merge (src/unnamed/part_002:857-865).                               *)
MergeModes == {JsString("replace"), JsString("merge"), JsBoolean(FALSE), JsBoolean(TRUE)}
UserChoseMerge(mode) == mode \in {JsString("merge"), JsBoolean(TRUE)}

(* onMessage 'startScraping' (src/background.js:1271-1297).  The popup     *)
(* offers merge mode only when the store holds classes                     *)
(* (src/unnamed/part_002:855-866).  The listener starts a new invocation   *)
(* whatever the others are doing.                                          *)
Start(r) ==
    /\ run[r].pc = "idle"
    /\ \E mode \in MergeModes :
        /\ UserChoseMerge(mode) => Len(scrapedClasses) > 0
        /\ Set(r, [IdleRun EXCEPT !.pc = "init",
                                  !.mergeMode = OrElse(mode, JsString("replace"))])
    /\ UNCHANGED <<env, tabs, storage, lastNotLoggedIn, calendar>>

(* Steps 1-2 (src/background.js:696-707). *)
ReadState(r) ==
    /\ run[r].pc = "init"
    /\ Set(r, [run[r] EXCEPT !.pc = "acquire",
                             !.isFirstRunFlag = isFirstRun(firstRunCompleted),
                             !.cachedLoginState = getCachedLoginState(loginCache, now)])
    /\ UNCHANGED <<env, tabs, storage, lastNotLoggedIn, calendar>>

(* Step 3 (src/background.js:709-752). *)
AcquireTab(r) ==
    /\ run[r].pc = "acquire"
    /\ IF findExistingFAPTab = {}
       THEN \E t \in FreeTabIds :
              LET direct == ~run[r].isFirstRunFlag /\ run[r].cachedLoginState = Some(TRUE) IN
              /\ tabs' = [tabs EXCEPT ![t] = Load(IF direct THEN "timetable" ELSE "home")]
              /\ Set(r, [run[r] EXCEPT !.pc = "login",
                                       !.fapTab = t,
                                       !.shouldCloseTab = TRUE,
                                       !.tabToClose = t,
                                       !.timetableTab = IF direct THEN t ELSE NoTab,
                                       !.created = t])
       ELSE \E t \in findExistingFAPTab :
              /\ Set(r, [run[r] EXCEPT !.pc = "login", !.fapTab = t])
              /\ UNCHANGED tabs
    /\ UNCHANGED <<env, storage, lastNotLoggedIn, calendar>>

(* Step 4 (src/background.js:754-794). *)
LoginCheck(r) ==
    /\ run[r].pc = "login"
    /\ LET needsLoginCheck == run[r].isFirstRunFlag \/ run[r].cachedLoginState = None
           isLoggedInFromCache == run[r].cachedLoginState = Some(TRUE)
           res == checkLogin(run[r].fapTab, ~needsLoginCheck)
           fail == [run[r] EXCEPT !.pc = "catch",
                                  !.error = AlertThenNotLoggedIn(run[r].fapTab),
                                  !.loginSource = res.source]
           pass == [run[r] EXCEPT !.pc = "navigate",
                                  !.loginSource = res.source]
       IN IF needsLoginCheck
          THEN /\ loginCache' = res.cache
               /\ IF ~res.isLoggedIn
                  THEN Set(r, fail) /\ UNCHANGED firstRunCompleted
                  ELSE /\ Set(r, pass)
                       /\ firstRunCompleted' =
                             (IF run[r].isFirstRunFlag THEN TRUE ELSE firstRunCompleted)
          ELSE IF ~isLoggedInFromCache
          THEN /\ loginCache' = res.cache
               /\ Set(r, IF ~res.isLoggedIn THEN fail ELSE pass)
               /\ UNCHANGED firstRunCompleted
          ELSE /\ Set(r, [run[r] EXCEPT !.pc = "navigate"])
               /\ UNCHANGED <<loginCache, firstRunCompleted>>
    /\ UNCHANGED <<env, tabs, scrapedClasses, lastNotLoggedIn, calendar>>

(* Step 5 (src/background.js:796-817) with navigateToUrl (210-229), whose  *)
(* result the caller ignores: a rejected tabs.update only invalidates the  *)
(* login cache.                                                            *)
Navigate(r) ==
    /\ run[r].pc = "navigate"
    /\ LET tt == IF run[r].timetableTab = NoTab THEN run[r].fapTab ELSE run[r].timetableTab
           go == run[r].timetableTab = NoTab /\ ~isOnTimetablePage(run[r].fapTab)
       IN /\ Set(r, [run[r] EXCEPT !.pc = "verify",
                                   !.timetableTab = tt,
                                   !.tabToClose = IF run[r].shouldCloseTab THEN tt ELSE @])
          /\ IF go /\ tabs[tt] # "none"
             THEN tabs' = [tabs EXCEPT ![tt] = Load("timetable")] /\ UNCHANGED loginCache
             ELSE IF go
             THEN loginCache' = None /\ UNCHANGED tabs
             ELSE UNCHANGED <<tabs, loginCache>>
    /\ UNCHANGED <<env, firstRunCompleted, scrapedClasses, lastNotLoggedIn, calendar>>

(* Step 5.5 (src/background.js:819-845). *)
Verify(r) ==
    /\ run[r].pc = "verify"
    /\ IF ~isOnTimetablePage(run[r].timetableTab)
       THEN /\ loginCache' = None
            /\ Set(r, [run[r] EXCEPT !.pc = "catch",
                                     !.error = AlertThenNotLoggedIn(run[r].timetableTab),
                                     !.verified = Some(FALSE)])
       ELSE /\ loginCache' = IF run[r].cachedLoginState = Some(TRUE)
                             THEN loginCache
                             ELSE saveLoginStateToCache(TRUE, now)
            /\ Set(r, [run[r] EXCEPT !.pc = "year", !.verified = Some(TRUE)])
    /\ UNCHANGED <<env, tabs, firstRunCompleted, scrapedClasses, lastNotLoggedIn, calendar>>

(* Overlay set-up, year selection, week options and range filter          *)
(* (src/background.js:847-945).  The set-up scripts reject on a closed     *)
(* tab.  A year change posts the page back; the week options that pass     *)
(* the range filter are weeks 1..n, none when the page has no week         *)
(* selector.                                                               *)
SelectYear(r) ==
    /\ run[r].pc = "year"
    /\ LET tt == run[r].timetableTab IN
       IF tabs[tt] = "none"
       THEN /\ Set(r, [run[r] EXCEPT !.pc = "catch", !.error = MsgNoTab])
            /\ UNCHANGED tabs
       ELSE \E needsYearUpdate \in BOOLEAN, n \in 0..MaxWeeks :
              LET page == IF needsYearUpdate THEN Load(tabs[tt]) ELSE tabs[tt] IN
              /\ page # "timetable" => n = 0
              /\ tabs' = [tabs EXCEPT ![tt] = page]
              /\ Set(r, [run[r] EXCEPT !.pc = "week",
                                       !.weeksToScrape = [k \in 1..n |-> k],
                                       !.i = 1])
    /\ UNCHANGED <<env, storage, lastNotLoggedIn, calendar>>

(* Head of the for loop (src/background.js:948-1019): the progress and     *)
(* year-context scripts run outside the retry loop's try.                  *)
BeginWeek(r) ==
    /\ run[r].pc = "week"
    /\ IF run[r].i > Len(run[r].weeksToScrape)
       THEN Set(r, [run[r] EXCEPT !.pc = "complete"])
       ELSE IF tabs[run[r].timetableTab] = "none"
       THEN Set(r, [run[r] EXCEPT !.pc = "catch", !.error = MsgNoTab])
       ELSE Set(r, [run[r] EXCEPT !.pc = "select", !.retries = 0,
                                  !.attempts = 0, !.page = ""])
    /\ UNCHANGED <<env, tabs, storage, lastNotLoggedIn, calendar>>

AttemptFailedSkips(rec, msg) ==
    IF IsAuthError(msg)
    THEN [rec EXCEPT !.pc = "catch", !.error = MsgNotLoggedIn, !.authError = TRUE]
    ELSE IF RetryExhausted(rec.retries + 1)
    THEN [rec EXCEPT !.pc = "week", !.retries = @ + 1, !.i = @ + 1]
    ELSE [rec EXCEPT !.pc = "select", !.retries = @ + 1]

(* The catch that gives a week up at its first failure. *)
AttemptFailedMovesOn(rec, msg) ==
    IF IsAuthError(msg)
    THEN [rec EXCEPT !.pc = "catch", !.error = MsgNotLoggedIn, !.authError = TRUE]
    ELSE [rec EXCEPT !.pc = "week",
                     !.retries = @ + 1,
                     !.errors = Append(@, [week |-> rec.weeksToScrape[rec.i], error |-> msg]),
                     !.i = @ + 1]

(* The retry loop's catch (src/background.js:1064-1084): the record of the *)
(* invocation and the login cache after an attempt threw `msg'.            *)
AttemptFailed(rec, msg) ==
    IF IsAuthError(msg)
    THEN [rec EXCEPT !.pc = "catch", !.error = MsgNotLoggedIn, !.authError = TRUE]
    ELSE IF RetryExhausted(rec.retries + 1)
    THEN [rec EXCEPT !.pc = "week",
                     !.retries = @ + 1,
                     !.errors = Append(@, [week |-> rec.weeksToScrape[rec.i], error |-> msg]),
                     !.i = @ + 1]
    ELSE [rec EXCEPT !.pc = "select", !.retries = @ + 1]

CacheAfterFailure(msg) == IF IsAuthError(msg) THEN None ELSE loginCache

(* selectWeek (src/background.js:418-474, called at 1025-1028): false on a *)
(* closed tab or when the script is rejected; otherwise the postback       *)
(* reloads the page.                                                       *)
SelectWeek(r) ==
    /\ run[r].pc = "select"
    /\ LET tt == run[r].timetableTab
           rec == [run[r] EXCEPT !.attempts = @ + 1]
       IN \E selectSuccess \in BOOLEAN :
            IF selectSuccess /\ tabs[tt] # "none"
            THEN /\ tabs' = [tabs EXCEPT ![tt] = Load(@)]
                 /\ Set(r, [rec EXCEPT !.pc = "extract"])
                 /\ UNCHANGED loginCache
            ELSE /\ Set(r, AttemptFailed(rec, MsgSelectFailed))
                 /\ loginCache' = CacheAfterFailure(MsgSelectFailed)
                 /\ UNCHANGED tabs
    /\ UNCHANGED <<env, firstRunCompleted, scrapedClasses, lastNotLoggedIn, calendar>>

(* Injection of content.js and extraction (src/background.js:1030-1063). *)
Extract(r) ==
    /\ run[r].pc = "extract"
    /\ LET tt == run[r].timetableTab
           week == run[r].weeksToScrape[run[r].i]
       IN IF tabs[tt] = "none"
          THEN /\ Set(r, AttemptFailed(run[r], MsgNoTab))
               /\ loginCache' = CacheAfterFailure(MsgNoTab)
          ELSE \/ \E msg \in InjectErrors :
                    /\ Set(r, AttemptFailed(run[r], msg))
                    /\ loginCache' = CacheAfterFailure(msg)
               \/ \E kind \in PageKinds :
                    LET weekData == extractWeekData(kind, week) IN
                    /\ tabs[tt] # "timetable" => kind = "noTable"
                    /\ IF IsArray(weekData)
                       THEN Set(r, [run[r] EXCEPT
                                !.pc = "week",
                                !.allWeeksData = Append(@, [weekNumber |-> week,
                                                            classes |-> weekData]),
                                !.page = kind,
                                !.i = @ + 1])
                       ELSE Set(r, AttemptFailed(run[r], <<"Failed", "to", "extract", "data">>))
                    /\ UNCHANGED loginCache
    /\ UNCHANGED <<env, tabs, firstRunCompleted, scrapedClasses, lastNotLoggedIn, calendar>>

(* The finally block (src/background.js:1167-1178): the record and the     *)
(* tabs after it.  tabs.remove of a tab that is already closed rejects,    *)
(* which the block ignores.                                                *)
FinallyRun(rec) ==
    IF ShouldCleanup(rec) THEN [rec EXCEPT !.removed = @ \cup {rec.tabToClose}] ELSE rec

FinallyTabs(rec) ==
    IF ShouldCleanup(rec) THEN [tabs EXCEPT ![rec.tabToClose] = "none"] ELSE tabs

(* After the loop (src/background.js:1088-1138): the completion event,     *)
(* then the clean-up script, which rejects on a closed tab, then the       *)
(* result and the finally block.                                           *)
Complete(r) ==
    /\ run[r].pc = "complete"
    /\ LET rec == [run[r] EXCEPT !.completion =
                       Some([totalWeeks |-> Len(run[r].weeksToScrape),
                             successCount |-> Len(run[r].allWeeksData),
                             errorCount |-> Len(run[r].errors)])]
           done == [rec EXCEPT !.pc = "returned",
                               !.scrapingSuccessful = TRUE,
                               !.result = Some([success |-> TRUE,
                                                error |-> <<>>,
                                                weeks |-> run[r].allWeeksData,
                                                errors |-> run[r].errors])]
       IN IF tabs[run[r].timetableTab] = "none"
          THEN Set(r, [rec EXCEPT !.pc = "catch", !.error = MsgNoTab]) /\ UNCHANGED tabs
          ELSE Set(r, FinallyRun(done)) /\ tabs' = FinallyTabs(done)
    /\ UNCHANGED <<env, storage, lastNotLoggedIn, calendar>>

(* catch and finally (src/background.js:1140-1178).  The clean-up script   *)
(* of the catch block is not guarded: on a closed tab it rejects, the      *)
(* finally block runs, and startScraping rejects with that error, which    *)
(* the listener's .catch turns into the response (1312-1318).              *)
Catch(r) ==
    /\ run[r].pc = "catch"
    /\ LET tt == run[r].timetableTab
           msg == IF tt # NoTab /\ tabs[tt] = "none" THEN MsgNoTab ELSE run[r].error
           done == [run[r] EXCEPT !.pc = "returned",
                                  !.result = Some([success |-> FALSE,
                                                   error |-> msg,
                                                   weeks |-> <<>>,
                                                   errors |-> <<>>])]
       IN /\ Set(r, FinallyRun(done))
          /\ tabs' = FinallyTabs(done)
    /\ UNCHANGED <<env, storage, lastNotLoggedIn, calendar>>

(* The listener that saves whatever the result is. *)
RespondSavesAlways(r) ==
    /\ run[r].pc = "returned"
    /\ LET result == run[r].result[1] IN
       /\ scrapedClasses' = saveScrapedClasses(result.weeks, run[r].mergeMode)
       /\ lastNotLoggedIn' = (result.error = MsgNotLoggedIn)
    /\ Set(r, IdleRun)
    /\ UNCHANGED <<env, tabs, loginCache, firstRunCompleted, calendar>>

(* The listener's continuation (src/background.js:1298-1318): save the     *)
(* classes of a successful result, then answer.                            *)
Respond(r) ==
    /\ run[r].pc = "returned"
    /\ LET result == run[r].result[1] IN
       /\ scrapedClasses' = IF result.success
                            THEN saveScrapedClasses(result.weeks, run[r].mergeMode)
                            ELSE scrapedClasses
       /\ lastNotLoggedIn' = (result.error = MsgNotLoggedIn)
    /\ Set(r, IdleRun)
    /\ UNCHANGED <<env, tabs, loginCache, firstRunCompleted, calendar>>

----------------------------------------------------------------------------
(* The user, the clock and the browser.  An invocation observes the clock,  *)
(* the session and the tabs only at some of its steps, and a move of the    *)
(* environment commutes with every step that does not observe what it       *)
(* changes; so each such move is taken only right before a step that        *)
(* observes it.                                                             *)

At(pcs) == \E r \in Runs : run[r].pc \in pcs

ReadsClock == {"init", "login", "verify"}
ReadsSession == {"acquire", "navigate", "year", "select"}
ReadsPage == {"acquire", "login", "navigate", "verify", "year", "select", "extract"}
ReadsTab == ReadsPage \cup {"week", "complete", "catch"}

TicksOf(t) == (t \div (LOGIN_CACHE_DURATION - 1)) + (t % (LOGIN_CACHE_DURATION - 1))

Tick ==
    /\ At(ReadsClock)
    /\ TicksOf(now) < MaxTicks
    /\ \E d \in {1, LOGIN_CACHE_DURATION - 1} : now' = now + d
    /\ UNCHANGED <<userLoggedIn, tabs, storage, run, lastNotLoggedIn, calendar>>

(* The user logs in: on an open tab that shows the login page, which then  *)
(* shows the home page, or somewhere else.                                 *)
UserLogin ==
    /\ At(ReadsPage)
    /\ ~userLoggedIn
    /\ userLoggedIn' = TRUE
    /\ \/ UNCHANGED tabs
       \/ \E t \in TabIds :
            /\ tabs[t] = "login"
            /\ tabs' = [tabs EXCEPT ![t] = "home"]
    /\ UNCHANGED <<now, storage, run, lastNotLoggedIn, calendar>>

(* The session ends (log-out elsewhere, or expiry); open pages stay as     *)
(* they are until they are reloaded.                                       *)
UserLogout ==
    /\ At(ReadsSession)
    /\ userLoggedIn
    /\ userLoggedIn' = FALSE
    /\ UNCHANGED <<now, tabs, storage, run, lastNotLoggedIn, calendar>>

UserOpenTab ==
    /\ At({"acquire"})
    /\ \E t \in FreeTabIds : tabs' = [tabs EXCEPT ![t] = Load("home")]
    /\ UNCHANGED <<env, storage, run, lastNotLoggedIn, calendar>>

UserCloseTab ==
    /\ \E t \in OpenTabs :
        /\ \/ At({"acquire"})
           \/ \E r \in Runs : /\ run[r].pc \in ReadsTab
                              /\ t \in {run[r].fapTab, run[r].timetableTab}
        /\ tabs' = [tabs EXCEPT ![t] = "none"]
    /\ UNCHANGED <<env, storage, run, lastNotLoggedIn, calendar>>

AllIdle == \A r \in Runs : run[r].pc = "idle"

(* chrome.runtime.onStartup (src/background.js:1238-1243): the browser     *)
(* starts with no tab and no invocation in flight.                         *)
BrowserStartup ==
    /\ AllIdle
    /\ scrapedClasses' = <<>>
    /\ firstRunCompleted' = FALSE
    /\ tabs' = [t \in TabIds |-> "none"]
    /\ UNCHANGED <<env, loginCache, run, lastNotLoggedIn, calendar>>

(* chrome.runtime.onInstalled (src/background.js:1245-1259). *)
Installed ==
    /\ AllIdle
    /\ firstRunCompleted' = FALSE
    /\ UNCHANGED <<env, tabs, loginCache, scrapedClasses, run, lastNotLoggedIn, calendar>>

Environment ==
    \/ Tick
    \/ UserLogin
    \/ UserLogout
    \/ UserOpenTab
    \/ UserCloseTab
    \/ BrowserStartup
    \/ Installed

(* startScraping from the message to its result. *)
Invocation(r) ==
    \/ Start(r)
    \/ ReadState(r)
    \/ AcquireTab(r)
    \/ LoginCheck(r)
    \/ Navigate(r)
    \/ Verify(r)
    \/ SelectYear(r)
    \/ BeginWeek(r)
    \/ SelectWeek(r)
    \/ Extract(r)
    \/ Complete(r)
    \/ Catch(r)

Step(r) == Invocation(r) \/ Respond(r)

(* One invocation at a time: the popup is used as intended. *)
Next == Environment \/ Step(1)

Spec == Init /\ [][Next]_vars

(* What the listener allows: a second message starts a second invocation   *)
(* while the first is in flight (the popup re-enables its button after     *)
(* SCRAPING_TIMEOUT, src/unnamed/part_002:880-882, 941-943, and a reopened *)
(* popup starts with the button enabled).  Two invocations are followed    *)
(* from their messages to their results.                                   *)
NextConcurrent == \E r \in Runs : Invocation(r)

SpecConcurrent == Init /\ [][NextConcurrent]_vars

----------------------------------------------------------------------------
(* The wait for the page load inside navigateToUrl                         *)
(* (src/background.js:210-229), step by step.  tabs.update returns when    *)
(* the navigation has started; the function then waits, with no timeout,   *)
(* for an onUpdated event of the tab whose status is 'complete'.  A tab    *)
(* that is closed sends no such event.  A tab found by findExistingFAPTab  *)
(* is taken as loaded, and the readiness poll of checkLogin as answered.   *)

(* Step 5 up to the return of tabs.update (src/background.js:796-817,      *)
(* 211-212): a rejected update is caught by navigateToUrl (225-228).       *)
NavigateUpdate(r) ==
    /\ run[r].pc = "navigate"
    /\ LET tt == IF run[r].timetableTab = NoTab THEN run[r].fapTab ELSE run[r].timetableTab
           go == run[r].timetableTab = NoTab /\ ~isOnTimetablePage(run[r].fapTab)
       IN /\ Set(r, [run[r] EXCEPT !.pc = IF go /\ tabs[tt] # "none" THEN "loading" ELSE "verify",
                                   !.timetableTab = tt,
                                   !.tabToClose = IF run[r].shouldCloseTab THEN tt ELSE @])
          /\ loginCache' = IF go /\ tabs[tt] = "none" THEN None ELSE loginCache
    /\ UNCHANGED <<env, tabs, firstRunCompleted, scrapedClasses, lastNotLoggedIn, calendar>>

(* The listener of navigateToUrl (src/background.js:213-221) sees the      *)
(* 'complete' event of the tab; the timer of waitTime then resolves.       *)
NavigateComplete(r) ==
    /\ run[r].pc = "loading"
    /\ tabs[run[r].timetableTab] # "none"
    /\ tabs' = [tabs EXCEPT ![run[r].timetableTab] = Load("timetable")]
    /\ Set(r, [run[r] EXCEPT !.pc = "verify"])
    /\ UNCHANGED <<env, storage, lastNotLoggedIn, calendar>>

(* The user closes the tab while its page is loading. *)
UserCloseLoadingTab ==
    /\ \E r \in Runs :
        /\ run[r].pc = "loading"
        /\ tabs[run[r].timetableTab] # "none"
        /\ tabs' = [tabs EXCEPT ![run[r].timetableTab] = "none"]
    /\ UNCHANGED <<env, storage, run, lastNotLoggedIn, calendar>>

InvocationWait(r) ==
    \/ Start(r)
    \/ ReadState(r)
    \/ AcquireTab(r)
    \/ LoginCheck(r)
    \/ NavigateUpdate(r)
    \/ NavigateComplete(r)
    \/ Verify(r)
    \/ SelectYear(r)
    \/ BeginWeek(r)
    \/ SelectWeek(r)
    \/ Extract(r)
    \/ Complete(r)
    \/ Catch(r)

StepWait(r) == InvocationWait(r) \/ Respond(r)

NextWait ==
    \/ UserOpenTab
    \/ UserCloseTab
    \/ UserCloseLoadingTab
    \/ StepWait(1)

(* Every browser API call returns and every timer fires, so a step of the  *)
(* invocation that can be taken is taken; a page that is loading in an     *)
(* open tab finishes loading.  Nothing is assumed of the user.             *)
SpecWait == Init /\ [][NextWait]_vars /\ WF_vars(StepWait(1))

----------------------------------------------------------------------------
(* The popup as the receiver of the run's messages                         *)
(* (src/background.js:951-960, 1088-1098, 1274-1318).  The popup that sent *)
(* 'startScraping' listens until the user closes it.                       *)

MsgNoReceiver == <<"Receiving", "end", "does", "not", "exist">>

(* A message to the popup whose failure stops the sender. *)
SendToPopupThrows(rec, listening) ==
    IF listening THEN rec
    ELSE [rec EXCEPT !.pc = "catch", !.error = MsgNoReceiver, !.undelivered = TRUE]

(* chrome.runtime.sendMessage(...).catch(() => {}) inside try/catch        *)
(* (src/background.js:951-960, 1088-1098): without a receiver the promise  *)
(* rejects, and the rejection is dropped.                                  *)
SendToPopup(rec, listening) ==
    [rec EXCEPT !.undelivered = @ \/ ~listening]

(* The head of the for loop with its progress message                      *)
(* (src/background.js:948-1019).                                           *)
BeginWeekSend(r) ==
    /\ run[r].pc = "week"
    /\ IF run[r].i > Len(run[r].weeksToScrape)
       THEN Set(r, [run[r] EXCEPT !.pc = "complete"])
       ELSE LET sent == SendToPopup(run[r], run[r].listener) IN
            IF sent.pc # "week"
            THEN Set(r, sent)
            ELSE IF tabs[run[r].timetableTab] = "none"
            THEN Set(r, [sent EXCEPT !.pc = "catch", !.error = MsgNoTab])
            ELSE Set(r, [sent EXCEPT !.pc = "select", !.retries = 0,
                                     !.attempts = 0, !.page = ""])
    /\ UNCHANGED <<env, tabs, storage, lastNotLoggedIn, calendar>>

(* After the loop, with the completion message (src/background.js:         *)
(* 1088-1138).                                                             *)
CompleteSend(r) ==
    /\ run[r].pc = "complete"
    /\ LET sent == SendToPopup(run[r], run[r].listener)
           rec == [sent EXCEPT !.completion =
                       Some([totalWeeks |-> Len(run[r].weeksToScrape),
                             successCount |-> Len(run[r].allWeeksData),
                             errorCount |-> Len(run[r].errors)])]
           done == [rec EXCEPT !.pc = "returned",
                               !.scrapingSuccessful = TRUE,
                               !.result = Some([success |-> TRUE,
                                                error |-> <<>>,
                                                weeks |-> run[r].allWeeksData,
                                                errors |-> run[r].errors])]
       IN IF sent.pc # "complete"
          THEN Set(r, sent) /\ UNCHANGED tabs
          ELSE IF tabs[run[r].timetableTab] = "none"
          THEN Set(r, [rec EXCEPT !.pc = "catch", !.error = MsgNoTab]) /\ UNCHANGED tabs
          ELSE Set(r, FinallyRun(done)) /\ tabs' = FinallyTabs(done)
    /\ UNCHANGED <<env, storage, lastNotLoggedIn, calendar>>

(* The listener that answers before it saves. *)
ThenRespondFirst(r) ==
    /\ run[r].pc = "returned"
    /\ Set(r, [run[r] EXCEPT !.pc = "respond", !.responseSent = TRUE, !.responses = @ + 1])
    /\ UNCHANGED <<env, tabs, storage, lastNotLoggedIn, calendar>>

(* The .then of the listener up to the save (src/background.js:1298-1308): *)
(* the classes of a successful result are saved and the save awaited.      *)
ThenSave(r) ==
    /\ run[r].pc = "returned"
    /\ LET result == run[r].result[1] IN
       IF result.success
       THEN /\ scrapedClasses' = saveScrapedClasses(result.weeks, run[r].mergeMode)
            /\ Set(r, [run[r] EXCEPT !.pc = "respond", !.saved = TRUE])
       ELSE /\ UNCHANGED scrapedClasses
            /\ Set(r, [run[r] EXCEPT !.pc = "respond"])
    /\ UNCHANGED <<env, tabs, loginCache, firstRunCompleted, lastNotLoggedIn, calendar>>

(* safeSendResponse (src/background.js:1279-1295, called at 1311 and       *)
(* 1315): sendResponse is called unless responseSent is set; an exception  *)
(* of a closed channel is caught.                                          *)
safeSendResponse(r) ==
    /\ run[r].pc = "respond"
    /\ IF run[r].responseSent
       THEN Set(r, [run[r] EXCEPT !.pc = "answered"])
       ELSE Set(r, [run[r] EXCEPT !.pc = "answered",
                                  !.responseSent = TRUE,
                                  !.responses = @ + 1,
                                  !.undelivered = @ \/ ~run[r].listener])
    /\ UNCHANGED <<env, tabs, storage, lastNotLoggedIn, calendar>>

(* The request is over; the next message starts from the listener anew. *)
Answered(r) ==
    /\ run[r].pc = "answered"
    /\ lastNotLoggedIn' = (run[r].result[1].error = MsgNotLoggedIn)
    /\ Set(r, IdleRun)
    /\ UNCHANGED <<env, tabs, storage, calendar>>

(* The user closes the popup while its request is in flight. *)
UserClosePopup ==
    /\ \E r \in Runs :
        /\ run[r].pc \notin {"idle", "answered"}
        /\ run[r].listener
        /\ Set(r, [run[r] EXCEPT !.listener = FALSE])
    /\ UNCHANGED <<env, tabs, storage, lastNotLoggedIn, calendar>>

InvocationListener(r) ==
    \/ Start(r)
    \/ ReadState(r)
    \/ AcquireTab(r)
    \/ LoginCheck(r)
    \/ Navigate(r)
    \/ Verify(r)
    \/ SelectYear(r)
    \/ BeginWeekSend(r)
    \/ SelectWeek(r)
    \/ Extract(r)
    \/ CompleteSend(r)
    \/ Catch(r)

StepListener(r) ==
    \/ InvocationListener(r)
    \/ ThenSave(r)
    \/ safeSendResponse(r)
    \/ Answered(r)

NextListener ==
    \/ UserOpenTab
    \/ UserCloseTab
    \/ UserClosePopup
    \/ StepListener(1)

SpecListener == Init /\ [][NextListener]_vars

----------------------------------------------------------------------------
(* The store and the calendar page (src/unnamed/part_001, the later        *)
(* version of src/calendar.js).  A scrape is taken from its extracted      *)
(* pages to the save of its result.                                        *)

(* A paragraph of a timetable cell: the id of its ActivityDetail link if   *)
(* the href has one, the time label if it has the form (H:MM-H:MM), the    *)
(* FAP slot times being in order.                                          *)
Paragraphs ==
    [id : {None} \cup {Some(a) : a \in Ids},
     timeStr : {None, Some(<<1, MaxTime>>)},
     rich : BOOLEAN]

Cells == {<<>>} \cup {<<p>> : p \in Paragraphs}

WeekPages == UNION {[1..n -> Cells] : n \in 1..MaxWeeks}

(* allWeeksData of a run over `pages' (src/background.js:1049-1058). *)
ScrapedWeeks(pages) ==
    [k \in 1..Len(pages) |->
        [weekNumber |-> k, classes |-> extractClassFromCell(CellOf(pages[k]))]]

ScrapeResults == {ScrapedWeeks(pages) : pages \in WeekPages}

(* The listener's continuation on a successful result                      *)
(* (src/background.js:1298-1307).  The scraped classes and the mode are    *)
(* remembered in lastOp when `history' is set.                             *)
SaveScraped(history) ==
    /\ \E weeks \in ScrapeResults, mode \in MergeModes :
         LET mergeMode == OrElse(mode, JsString("replace"))
             finalClasses == saveScrapedClasses(weeks, mergeMode)
         IN /\ UserChoseMerge(mode) => Len(scrapedClasses) > 0
            /\ Len(finalClasses) <= MaxClasses
            /\ scrapedClasses' = finalClasses
            /\ lastOp' = IF history
                         THEN [op |-> "save",
                               newClasses |-> flattenWeeksToClasses(weeks),
                               mergeMode |-> mergeMode,
                               formData |-> None]
                         ELSE [NoOp EXCEPT !.op = "save"]
    /\ UNCHANGED <<env, tabs, loginCache, firstRunCompleted, run, lastNotLoggedIn, filterCall, fnCall,
                   allClasses, currentEditingClass>>

(* loadClasses when the calendar page opens (src/unnamed/part_001:185-202). *)
loadClasses ==
    /\ allClasses' = scrapedClasses
    /\ currentEditingClass' = None
    /\ lastOp' = [NoOp EXCEPT !.op = "load"]
    /\ UNCHANGED <<env, tabs, storage, run, lastNotLoggedIn, filterCall, fnCall>>

(* openEditModal (src/unnamed/part_001:782-797) on a class of the page. *)
openEditModal ==
    /\ currentEditingClass = None
    /\ \E k \in 1..Len(allClasses) : currentEditingClass' = Some(allClasses[k])
    /\ lastOp' = [NoOp EXCEPT !.op = "open"]
    /\ UNCHANGED <<env, tabs, storage, run, lastNotLoggedIn, filterCall, fnCall, allClasses>>

(* closeEditModal (src/unnamed/part_001:800-804) *)
closeEditModal ==
    /\ currentEditingClass # None
    /\ currentEditingClass' = None
    /\ lastOp' = [NoOp EXCEPT !.op = "close"]
    /\ UNCHANGED <<env, tabs, storage, run, lastNotLoggedIn, filterCall, fnCall, allClasses>>

(* The values of the edit form (src/unnamed/part_001:1029-1038);           *)
(* subjectCode stands for the text fields (date, location, status are      *)
(* assigned the same way).                                                 *)
FormData ==
    [subjectCode : {"B"}, timeStart : Times, timeEnd : {MaxTime}, meetUrl : {"", "meet"}]

EditedClassDropsLinks(class, formData) ==
    [class EXCEPT !.subjectCode = formData.subjectCode,
                  !.time = [start |-> formData.timeStart, end |-> formData.timeEnd],
                  !.meetUrl = IF formData.meetUrl # "" THEN Some(formData.meetUrl) ELSE None,
                  !.edunextUrl = None,
                  !.materialsUrl = None,
                  !.isRelocated = FALSE,
                  !.isOnline = formData.meetUrl # ""]

(* The object literal of saveEditedClass (src/unnamed/part_001:814-829):   *)
(* the spread keeps every field that is not assigned.                      *)
EditedClass(class, formData) ==
    [class EXCEPT !.subjectCode = formData.subjectCode,
                  !.time = [start |-> formData.timeStart, end |-> formData.timeEnd],
                  !.meetUrl = IF formData.meetUrl # "" THEN Some(formData.meetUrl) ELSE None,
                  !.edunextUrl = @,
                  !.materialsUrl = @,
                  !.isRelocated = @,
                  !.isOnline = IF formData.meetUrl # "" THEN TRUE ELSE @]

(* saveEditedClass (src/unnamed/part_001:807-834) with saveClasses         *)
(* (205-211) and closeEditModal.                                           *)
saveEditedClass ==
    /\ currentEditingClass # None
    /\ \E formData \in FormData :
         LET index == FindIndex(allClasses, ActivityId(currentEditingClass[1])) IN
         /\ lastOp' = [NoOp EXCEPT !.op = "edit", !.formData = Some(formData)]
         /\ IF index = 0
            THEN UNCHANGED <<allClasses, scrapedClasses, currentEditingClass>>
            ELSE /\ allClasses' = [allClasses EXCEPT
                                      ![index] = EditedClass(@, formData)]
                 /\ scrapedClasses' = allClasses'
                 /\ currentEditingClass' = None
    /\ UNCHANGED <<env, tabs, loginCache, firstRunCompleted, run, lastNotLoggedIn, filterCall, fnCall>>

(* allClasses.filter(c => c.activityId !== ...), src/unnamed/part_001:841 *)
Filter(classes, activityId) ==
    SelectSeq(classes, LAMBDA c : ActivityId(c) # activityId)

(* deleteClass (src/unnamed/part_001:837-847): nothing unless confirmed. *)
deleteClass ==
    /\ currentEditingClass # None
    /\ \E confirmed \in BOOLEAN :
         IF confirmed
         THEN /\ allClasses' = Filter(allClasses, ActivityId(currentEditingClass[1]))
              /\ scrapedClasses' = allClasses'
              /\ currentEditingClass' = None
              /\ lastOp' = [NoOp EXCEPT !.op = "delete"]
         ELSE /\ lastOp' = [NoOp EXCEPT !.op = "cancel"]
              /\ UNCHANGED <<allClasses, scrapedClasses, currentEditingClass>>
    /\ UNCHANGED <<env, tabs, loginCache, firstRunCompleted, run, lastNotLoggedIn, filterCall, fnCall>>

(* Scrapes and the calendar page. *)
NextStore ==
    \/ SaveScraped(FALSE)
    \/ loadClasses
    \/ openEditModal
    \/ closeEditModal
    \/ saveEditedClass
    \/ deleteClass

(* The FAP session plays no part in the store. *)
InitStore == Init /\ userLoggedIn = FALSE

SpecStore == InitStore /\ [][NextStore]_vars

(* Scrapes only, each remembered with its inputs. *)
NextMerge == SaveScraped(TRUE)

SpecMerge == InitStore /\ [][NextMerge]_vars

(* The result of a run as startScraping builds it (src/background.js:      *)
(* 1047-1058): the pages of some of the weeks, each with its own class.    *)
RunWeeks ==
    {[k \in 1..Len(ws) |-> [weekNumber |-> ws[k],
                            classes |-> extractWeekData("classes", ws[k])]] :
        ws \in {<<>>} \cup {<<w>> : w \in 1..MaxWeeks}
                 \cup {<<v, w>> : v \in 1..MaxWeeks, w \in 2..MaxWeeks}}

(* The listener saves the result of a run (src/background.js:1298-1307)    *)
(* while the calendar page is open or closed.                              *)
SaveRun ==
    /\ \E weeks \in RunWeeks, mode \in MergeModes :
         LET mergeMode == OrElse(mode, JsString("replace")) IN
         /\ UserChoseMerge(mode) => Len(scrapedClasses) > 0
         /\ Len(weeks) = 2 => weeks[1].weekNumber < weeks[2].weekNumber
         /\ scrapedClasses' = saveScrapedClasses(weeks, mergeMode)
         /\ lastOp' = [NoOp EXCEPT !.op = "save"]
    /\ UNCHANGED <<env, tabs, loginCache, firstRunCompleted, run, lastNotLoggedIn, filterCall, fnCall,
                   allClasses, currentEditingClass>>

(* The background script and the calendar page, each with its own copy of  *)
(* the classes: the page reads storage when it opens                       *)
(* (src/unnamed/part_001:938) and writes its copy back on every edit and   *)
(* delete (831, 842).                                                      *)
NextContexts ==
    \/ SaveRun
    \/ loadClasses
    \/ openEditModal
    \/ closeEditModal
    \/ saveEditedClass
    \/ deleteClass

SpecContexts == InitStore /\ [][NextContexts]_vars

----------------------------------------------------------------------------
(* Week filter (src/background.js:238-260, 291-356).  A Date is its number *)
(* of hours since 00:00 UTC of the first day of BaseYear; the years in     *)
(* reach are not leap years.                                               *)

BaseYear == 2025
MaxOptions == 2

DaysBefore == <<0, 31, 59, 90, 120, 151, 181, 212, 243, 273, 304, 334>>
DaysIn == <<31, 28, 31, 30, 31, 30, 31, 31, 30, 31, 30, 31>>

AllDates ==
    {date \in [y : BaseYear..(BaseYear + 2), m : 1..12, d : 1..31] :
        date.d <= DaysIn[date.m]}

DayNumber(date) == 365 * (date.y - BaseYear) + DaysBefore[date.m] + date.d - 1

(* The browser's time zone, in hours east of UTC. *)
TimeZones == {-5, 0, 7}

(* new Date('YYYY-MM-DD'): a date-only string is 00:00 UTC of that day. *)
DateFromString(date) == 24 * DayNumber(date)

(* parseDate (238-241): new Date(year, month - 1, day) is 00:00 local time. *)
parseDate(dateStr, year, tz) ==
    24 * DayNumber([y |-> year, m |-> dateStr.m, d |-> dateStr.d]) - tz

(* toISOString().split('T')[0]: the UTC day of an instant. *)
ToISODate(t) == CHOOSE date \in AllDates : DayNumber(date) = t \div 24

(* weekOverlapsRange (252-260) *)
weekOverlapsRange(weekStart, weekEnd, rangeStart, rangeEnd) ==
    weekStart <= rangeEnd /\ weekEnd >= rangeStart

(* The week of a matching option text, as filterWeeksByRange resolves it   *)
(* (301-351); text.match is the pair of its DD/MM parts.                   *)
ResolveWeek(option, year, tz) ==
    LET weekStartStr == option.match[1][1]
        weekEndStr == option.match[1][2]
        spans == \/ (weekStartStr.m = 12 /\ weekEndStr.m = 1)
                 \/ weekStartStr.m > weekEndStr.m
        weekStartYear == IF spans THEN year - 1 ELSE year
        weekEndYear == year
        weekStartDate == parseDate(weekStartStr, weekStartYear, tz)
        weekEndDate == parseDate(weekEndStr, weekEndYear, tz)
        adjust == weekEndDate < weekStartDate
        endYear == IF adjust THEN weekStartYear + 1 ELSE weekEndYear
        endDate == IF adjust THEN parseDate(weekEndStr, endYear, tz) ELSE weekEndDate
    IN [value |-> option.value,
        text |-> option.match,
        weekStartDate |-> weekStartDate,
        weekEndDate |-> endDate,
        startDate |-> ToISODate(weekStartDate),
        endDate |-> ToISODate(endDate),
        startYear |-> weekStartYear,
        endYear |-> endYear]

(* filterWeeksByRange (291-356) *)
RECURSIVE filterWeeksByRange(_, _, _, _, _)
filterWeeksByRange(weekOptions, startDate, endDate, year, tz) ==
    IF weekOptions = <<>> THEN <<>>
    ELSE LET option == Head(weekOptions)
             rest == filterWeeksByRange(Tail(weekOptions), startDate, endDate, year, tz)
         IN IF option.match = None THEN rest
            ELSE LET week == ResolveWeek(option, year, tz) IN
                 IF weekOverlapsRange(week.weekStartDate, week.weekEndDate,
                                      DateFromString(startDate), DateFromString(endDate))
                 THEN <<[w \in {"value", "text", "startDate", "endDate",
                                "startYear", "endYear"} |-> week[w]]>> \o rest
                 ELSE rest

(* The options of the week dropdown for 2026 around the turn of the year   *)
(* (weeks from Monday to Sunday), and a placeholder whose text is no week. *)
WeekOptions ==
    {[value |-> 0, match |-> None],
     [value |-> 1, match |-> Some(<<[d |-> 29, m |-> 12], [d |-> 4, m |-> 1]>>)],
     [value |-> 2, match |-> Some(<<[d |-> 5, m |-> 1], [d |-> 11, m |-> 1]>>)],
     [value |-> 3, match |-> Some(<<[d |-> 12, m |-> 1], [d |-> 18, m |-> 1]>>)]}

(* The days the popup's date inputs are set to. *)
RangeDates ==
    {[y |-> 2025, m |-> 12, d |-> 28], [y |-> 2026, m |-> 1, d |-> 4],
     [y |-> 2026, m |-> 1, d |-> 5], [y |-> 2026, m |-> 1, d |-> 11],
     [y |-> 2026, m |-> 1, d |-> 12]}

FilterCalls ==
    {call \in [weekOptions : UNION {[1..n -> WeekOptions] : n \in 1..MaxOptions},
               startDate : RangeDates,
               endDate : RangeDates,
               year : {BaseYear + 1},
               tz : TimeZones,
               result : {None}] :
        DayNumber(call.startDate) <= DayNumber(call.endDate)}

(* Step 7 of startScraping (src/background.js:942-943). *)
FilterWeeks ==
    /\ filterCall # None
    /\ filterCall[1].result = None
    /\ filterCall' = Some([filterCall[1] EXCEPT !.result =
            Some(filterWeeksByRange(filterCall[1].weekOptions, filterCall[1].startDate,
                                    filterCall[1].endDate, filterCall[1].year,
                                    filterCall[1].tz))])
    /\ UNCHANGED <<env, tabs, storage, run, lastNotLoggedIn,
                   allClasses, currentEditingClass, lastOp, fnCall>>

InitWeeks ==
    /\ now = 0
    /\ userLoggedIn = FALSE
    /\ tabs = [t \in TabIds |-> "none"]
    /\ loginCache = None
    /\ firstRunCompleted = FALSE
    /\ scrapedClasses = <<>>
    /\ run = [r \in Runs |-> IdleRun]
    /\ lastNotLoggedIn = FALSE
    /\ allClasses = <<>>
    /\ currentEditingClass = None
    /\ lastOp = NoOp
    /\ filterCall \in {Some(c) : c \in FilterCalls}
    /\ fnCall = None

NextWeeks == FilterWeeks

SpecWeeks == InitWeeks /\ [][NextWeeks]_vars

----------------------------------------------------------------------------
(* A call of one function on arguments drawn from a bounded set. *)

InitCall(calls) ==
    /\ now = 0
    /\ userLoggedIn = FALSE
    /\ tabs = [t \in TabIds |-> "none"]
    /\ loginCache = None
    /\ firstRunCompleted = FALSE
    /\ scrapedClasses = <<>>
    /\ run = [r \in Runs |-> IdleRun]
    /\ lastNotLoggedIn = FALSE
    /\ allClasses = <<>>
    /\ currentEditingClass = None
    /\ lastOp = NoOp
    /\ filterCall = None
    /\ fnCall \in {Some(c) : c \in calls}

Return(result) ==
    /\ fnCall # None
    /\ fnCall[1].result = None
    /\ fnCall' = Some([fnCall[1] EXCEPT !.result = Some(result)])
    /\ UNCHANGED <<env, tabs, storage, run, lastNotLoggedIn,
                   allClasses, currentEditingClass, lastOp, filterCall>>

Returned(fn) == fnCall # None /\ fnCall[1].fn = fn /\ fnCall[1].result # None

----------------------------------------------------------------------------
(* Extraction of a timetable page (src/content.js:226-387). *)

MaxCells == 2
MaxEntries == 2

(* A class entry of a cell: its ActivityDetail link and its time label. *)
Entries ==
    [id : {None} \cup {Some(a) : a \in Ids},
     timeStr : {None, Some(<<1, MaxTime>>)},
     rich : {FALSE}]

PageCells ==
    [inParagraphs : BOOLEAN,
     entries : UNION {[1..n -> Entries] : n \in 0..MaxEntries}]

ExtractCalls ==
    [fn : {"extractScheduleData"},
     page : [kind : {"classes"},
             cells : UNION {[1..n -> PageCells] : n \in 1..MaxCells}],
     result : {None}]

(* The message handler of the content script answers extractSchedule. *)
ExtractSchedule == Return(extractScheduleData(fnCall[1].page))

NextExtract == ExtractSchedule

SpecExtract == InitCall(ExtractCalls) /\ [][NextExtract]_vars

----------------------------------------------------------------------------
(* Text of the exporter (src/unnamed/part_003).  A string is the sequence  *)
(* of its characters.                                                      *)

CR == "\r"
LF == "\n"
CRLF == <<CR, LF>>
SP == " "

(* s.substring(from, to), with the ends clamped to the string *)
Substring(str, from, to) ==
    LET lo == IF from > Len(str) THEN Len(str) ELSE from
        hi == IF to > Len(str) THEN Len(str) ELSE to
    IN SubSeq(str, lo + 1, hi)

(* s.startsWith(prefix) *)
StartsWith(str, prefix) ==
    Len(str) >= Len(prefix) /\ SubSeq(str, 1, Len(prefix)) = prefix

(* s.indexOf(sub) counted from 1, 0 if `sub' does not occur *)
IndexOf(str, sub) ==
    LET found == {i \in 1..(Len(str) - Len(sub) + 1) : SubSeq(str, i, i + Len(sub) - 1) = sub}
    IN IF found = {} THEN 0 ELSE CHOOSE i \in found : \A j \in found : i <= j

(* s.includes(sub) *)
StrIncludes(str, sub) == IndexOf(str, sub) # 0

(* s.split(sep) *)
RECURSIVE Split(_, _)
Split(str, sep) ==
    LET i == IndexOf(str, sep) IN
    IF i = 0 THEN <<str>>
    ELSE <<SubSeq(str, 1, i - 1)>> \o Split(SubSeq(str, i + Len(sep), Len(str)), sep)

(* parts.join(sep) *)
RECURSIVE Join(_, _)
Join(parts, sep) ==
    IF parts = <<>> THEN <<>>
    ELSE IF Len(parts) = 1 THEN parts[1]
    ELSE parts[1] \o sep \o Join(Tail(parts), sep)

(* s.replace(/sub/g, by) *)
RECURSIVE ReplaceAll(_, _, _)
ReplaceAll(str, sub, by) ==
    LET i == IndexOf(str, sub) IN
    IF i = 0 THEN str
    ELSE SubSeq(str, 1, i - 1) \o by \o ReplaceAll(SubSeq(str, i + Len(sub), Len(str)), sub, by)

Min(a, b) == IF a <= b THEN a ELSE b

----------------------------------------------------------------------------
(* foldIcsLine (src/unnamed/part_003:48-112). *)

MAX_LINE_LENGTH == 75

ContinuationSkips(content, pos, contLen) == <<SP>> \o Substring(content, pos + 1, pos + contLen)
(* ' ' + content.substring(pos, pos + contLen), part_003:82, 106 *)
Continuation(content, pos, contLen) == <<SP>> \o Substring(content, pos, pos + contLen)

(* The while loops (part_003:79-84, 103-108) *)
RECURSIVE ContinuationChunks(_, _)
ContinuationChunks(content, pos) ==
    IF pos < Len(content)
    THEN LET remaining == Len(content) - pos
             contLen == Min(remaining, MAX_LINE_LENGTH - 1)
         IN <<Continuation(content, pos, contLen)>>
                \o ContinuationChunks(content, pos + contLen)
    ELSE <<>>

(* One segment of a line that contains CRLF (part_003:63-87) *)
ValidSegments(seg) ==
    LET isContinuation == StartsWith(seg, <<SP>>)
        content == IF isContinuation THEN Substring(seg, 1, Len(seg)) ELSE seg
    IN IF Len(content) <= MAX_LINE_LENGTH THEN <<seg>>
       ELSE IF ~isContinuation
            THEN <<Substring(content, 0, Min(MAX_LINE_LENGTH, Len(content)))>>
                     \o ContinuationChunks(content, MAX_LINE_LENGTH)
            ELSE ContinuationChunks(content, 0)

RECURSIVE AllValidSegments(_)
AllValidSegments(segments) ==
    IF segments = <<>> THEN <<>>
    ELSE ValidSegments(Head(segments)) \o AllValidSegments(Tail(segments))

foldIcsLine(line) ==
    IF line = <<>> THEN <<>>
    ELSE IF Len(line) <= MAX_LINE_LENGTH THEN line
    ELSE IF StrIncludes(line, CRLF) THEN Join(AllValidSegments(Split(line, CRLF)), CRLF)
    ELSE Join(<<Substring(line, 0, Min(MAX_LINE_LENGTH, Len(line)))>>
                  \o ContinuationChunks(line, MAX_LINE_LENGTH), CRLF)

MaxSegments == 2

(* The characters of the lines: letters, spaces and single CR and LF. *)
Letters == <<"a", SP, "b", CR, "c", LF, "d">>

Body(n) == [i \in 1..n |-> Letters[((i - 1) % Len(Letters)) + 1]]

SegmentLengths ==
    {0, 1, MAX_LINE_LENGTH - 2, MAX_LINE_LENGTH - 1, MAX_LINE_LENGTH, MAX_LINE_LENGTH + 1,
     2 * MAX_LINE_LENGTH - 1, 2 * MAX_LINE_LENGTH}

Segments ==
    {Body(n) : n \in SegmentLengths} \cup {<<SP>> \o Body(n) : n \in SegmentLengths}

FoldCalls ==
    [fn : {"foldIcsLine"},
     line : {Join(segs, CRLF) : segs \in UNION {[1..n -> Segments] : n \in 1..MaxSegments}},
     result : {None}]

FoldLine == Return(foldIcsLine(fnCall[1].line))

NextFold == FoldLine

SpecFold == InitCall(FoldCalls) /\ [][NextFold]_vars

----------------------------------------------------------------------------
(* The events of the exporter (src/unnamed/part_003:9-40, 120-406). *)

Whitespace == {SP, CR, LF}

(* s.trim() *)
RECURSIVE TrimStart(_)
TrimStart(str) ==
    IF str # <<>> /\ Head(str) \in Whitespace THEN TrimStart(Tail(str)) ELSE str

RECURSIVE TrimEnd(_)
TrimEnd(str) ==
    IF str # <<>> /\ str[Len(str)] \in Whitespace
    THEN TrimEnd(SubSeq(str, 1, Len(str) - 1)) ELSE str

Trim(str) == TrimEnd(TrimStart(str))

DigitChars == <<"0", "1", "2", "3", "4", "5", "6", "7", "8", "9">>

DigitValue(c) == CHOOSE d \in 0..9 : DigitChars[d + 1] = c

(* Number(s) of a string of digits *)
RECURSIVE Number(_)
Number(str) ==
    IF str = <<>> THEN 0
    ELSE 10 * Number(SubSeq(str, 1,
        Len(str) - 1)) + DigitValue(str[Len(str)])

(* String(n) of a natural number *)
RECURSIVE String(_)
String(n) ==
    IF n < 10 THEN <<DigitChars[n + 1]>>
    ELSE String(n \div 10) \o <<DigitChars[(n % 10) + 1]>>

PadStartNone(str, targetLength, padString) == str
(* s.padStart(targetLength, padString) with a padString of one character *)
RECURSIVE PadStart(_, _, _)
PadStart(str, targetLength, padString) ==
    IF Len(str) >= targetLength THEN str
    ELSE PadStart(padString \o str, targetLength, padString)

(* getIcsMessage (part_003:9-25) with the messages of its fallback table;   *)
(* the warning sign is written without its variation selector.             *)
getIcsMessage(key) ==
    CASE key = "icsLocationLabel" -> <<"L", "o", "c", "a", "t", "i", "o",
        "n">>
      [] key = "icsRelocatedWarning" -> <<"⚠", " ", "T", "h", "i",
          "s", " ", "c", "l", "a", "s", "s", " ", "h", "a", "s", " ", "b",
          "e", "e", "n", " ", "r", "e", "l", "o", "c", "a", "t", "e", "d">>
      [] key = "icsSummaryRelocated" -> <<"R", "e", "l", "o", "c", "a",
          "t", "e", "d">>
      [] key = "icsMeetLabel" -> <<"G", "o", "o", "g", "l", "e", " ", "M",
          "e", "e", "t">>
      [] key = "icsHasEduNext" -> <<"*", " ", "H", "a", "s", " ", "d", "i",
          "s", "c", "u", "s", "s", "i", "o", "n", " ", "o", "n", " ", "E",
          "d", "u", "N", "e", "x", "t">>
      [] key = "icsHasMaterials" -> <<"*", " ", "H", "a", "s", " ", "m",
          "a", "t", "e", "r", "i", "a", "l", "s", " ", "o", "n", " ", "F",
          "L", "M">>
      [] key = "icsViewLinksNote" -> <<"(", "P", "l", "e", "a", "s", "e",
          " ", "c", "h", "e", "c", "k", " ", "s", "c", "h", "e", "d", "u",
          "l", "e", " ", "o", "n", " ", "F", "A", "P", " ", "t", "o", " ",
          "s", "e", "e", " ", "t", "h", "e", " ", "l", "i", "n", "k", "s",
          ")">>

(* The escapes applied with the line feed first. *)
escapeIcsTextNewlineFirst(text) ==
    LET t1 == ReplaceAll(text, <<LF>>, <<"\\", "n">>)
        t2 == ReplaceAll(t1, <<"\\">>, <<"\\", "\\">>)
        t3 == ReplaceAll(t2, <<";">>, <<"\\", ";">>)
        t4 == ReplaceAll(t3, <<",">>, <<"\\", ",">>)
    IN ReplaceAll(t4, <<CR>>, <<>>)

(* escapeIcsText (part_003:32-40) *)
escapeIcsText(text) ==
    IF text = <<>> THEN <<>>
    ELSE LET t1 == ReplaceAll(text, <<"\\">>, <<"\\", "\\">>)
             t2 == ReplaceAll(t1, <<";">>, <<"\\", ";">>)
             t3 == ReplaceAll(t2, <<",">>, <<"\\", ",">>)
             t4 == ReplaceAll(t3, <<LF>>, <<"\\", "n">>)
         IN ReplaceAll(t4, <<CR>>, <<>>)

(* formatIcsDateTime (part_003:120-141) *)
formatIcsDateTime(dateStr, timeStr) ==
    IF dateStr = <<>> \/ timeStr = <<>> THEN <<>>
    ELSE LET dateParts == Split(dateStr, <<"-">>)
             timeParts == Split(timeStr, <<":">>)
             year == Number(dateParts[1])
             month == Number(dateParts[2])
             day == Number(dateParts[3])
             hours == Number(timeParts[1])
             minutes == Number(timeParts[2])
             seconds == IF Len(timeParts) > 2 THEN Number(timeParts[3]) ELSE 0
         IN PadStart(String(year), 4, <<"0">>) \o PadStart(String(month),
             2, <<"0">>)
                \o PadStart(String(day), 2, <<"0">>) \o <<"T">>
                \o PadStart(String(hours), 2, <<"0">>)
                \o PadStart(String(minutes), 2, <<"0">>)
                \o PadStart(String(seconds), 2, <<"0">>)

(* formatIcsDateTimeUtc (part_003:149-171) of a UTC date and time of day:  *)
(* Date.UTC and the getUTC... readers give the same fields back.           *)
formatIcsDateTimeUtc(dateStr, timeStr) ==
    IF dateStr = <<>> \/ timeStr = <<>> THEN <<>>
    ELSE formatIcsDateTime(dateStr, timeStr) \o <<"Z">>

(* A URL string is its parts; new URL(url) throws unless it is absolute.   *)
Href(url) ==
    (IF url.absolute THEN url.scheme ELSE <<>>) \o url.host \o url.pathname \o url.search

(* extractBaseUrl (part_003:178-188) *)
extractBaseUrl(url) ==
    IF Trim(Href(url)) = <<>> THEN <<>>
    ELSE IF url.absolute THEN url.scheme \o url.host \o url.pathname
    ELSE <<>>

(* hasJwtToken (part_003:195-206) *)
hasJwtToken(url) ==
    IF Trim(Href(url)) = <<>> THEN FALSE
    ELSE IF url.absolute THEN Len(url.search) > 100
    ELSE FALSE

(* charCodeAt of the characters of an activity id, a date and a time *)
CharCode(c) ==
    CASE c \in {DigitChars[i] : i \in 1..10} -> 48 + DigitValue(c)
      [] c = "-" -> 45
      [] c = ":" -> 58
      [] c = "a" -> 97
      [] c = "c" -> 99
      [] c = "l" -> 108
      [] c = "s" -> 115

(* hash = ((hash << 5) - hash) + char; hash = hash & hash (part_003:220-   *)
(* 224): a 32-bit integer,
    kept as its two halves of 16 bits.              *)
RECURSIVE HashOf(_)
HashOf(str) ==
    IF str = <<>> THEN [hi |-> 0, lo |-> 0]
    ELSE LET hash == HashOf(SubSeq(str, 1, Len(str) - 1))
             lo == 31 * hash.lo + CharCode(str[Len(str)])
             hi == 31 * hash.hi + (lo \div 65536)
         IN [hi |-> hi % 65536, lo |-> lo % 65536]

(* Math.abs(hash) of the signed 32-bit integer; 2^31 itself does not fit   *)
(* the 32-bit integers of the model and is written as 0.                   *)
AbsHash(hash) ==
    IF hash.hi < 32768 THEN hash.hi * 65536 + hash.lo
    ELSE IF hash.hi = 32768 /\ hash.lo = 0 THEN 0
    ELSE (65535 - hash.hi) * 65536 + (65536 - hash.lo)

(* generateEventUid (part_003:215-228); `year' is new Date().getFullYear() *)
generateEventUid(activityId, dateStr, timeStr, year) ==
    LET uniqueStr == (IF activityId # <<>> THEN activityId ELSE <<"c", "l",
        "a", "s", "s">>)
                         \o <<"-">> \o dateStr \o <<"-">> \o timeStr
    IN String(year) \o <<"-", "v", "2",
        "-">> \o String(AbsHash(HashOf(uniqueStr)))
           \o <<"@", "f", "p", "t", "u", "-", "s", "t", "u", "d", "y", "-",
               "c", "a", "l", "e", "n", "d", "a", "r">>

Truthy1(str) == str # None /\ Trim(str) # <<>>

NotesWithLinks(classData) ==
    (IF Truthy1(classData.edunextUrl) THEN <<classData.edunextUrl>> ELSE <<>>)
        \o (IF Truthy1(classData.materialsUrl) THEN <<classData.materialsUrl>> ELSE <<>>)
(* materialsParts (part_003:316-329) *)
MaterialsParts(classData) ==
    (IF Truthy1(classData.edunextUrl) THEN <<getIcsMessage("icsHasEduNext")>> ELSE <<>>)
        \o (IF Truthy1(classData.materialsUrl)
            THEN <<getIcsMessage("icsHasMaterials")>> ELSE <<>>)
        \o (IF Truthy1(classData.edunextUrl) \/ Truthy1(classData.materialsUrl)
            THEN <<getIcsMessage("icsViewLinksNote")>> ELSE <<>>)

(* The Google Meet part (part_003:302-315) *)
MeetParts(meetUrl) ==
    IF meetUrl = None \/ Trim(Href(meetUrl[1])) = <<>> THEN <<>>
    ELSE IF ~hasJwtToken(meetUrl[1])
         THEN <<getIcsMessage("icsMeetLabel") \o <<":",
             " ">> \o Trim(Href(meetUrl[1]))>>
         ELSE LET baseUrl == extractBaseUrl(meetUrl[1]) IN
              IF baseUrl # <<>>
              THEN <<getIcsMessage("icsMeetLabel") \o <<":",
                  " ">> \o baseUrl>>
              ELSE <<>>

(* mainParts (part_003:287-314) *)
MainParts(classData) ==
    (IF Trim(classData.location) # <<>>
     THEN <<getIcsMessage("icsLocationLabel") \o <<":",
         " ">> \o Trim(classData.location)>>
     ELSE <<>>)
        \o (IF classData.isRelocated THEN <<getIcsMessage("icsRelocatedWarning")>> ELSE <<>>)
        \o MeetParts(classData.meetUrl)

(* The reminder without the test for an online class. *)
ReminderMinutesFirst(isOnline, isFirstClassOfDay) ==
    IF isFirstClassOfDay THEN 30 ELSE 15

(* reminderMinutes (part_003:384-391) *)
ReminderMinutes(isOnline, isFirstClassOfDay) ==
    IF isOnline THEN 15 ELSE IF isFirstClassOfDay THEN 30 ELSE 15

(* The record lacks what an event needs (part_003:252) *)
InvalidClassData(classData) ==
    \/ classData.date = <<>>
    \/ classData.time = None
    \/ classData.time[1].start = <<>>
    \/ classData.time[1].end = <<>>

(* generateIcsEvent (part_003:237-406); `clock' is new Date() *)
generateIcsEvent(classData, isFirstClassOfDay, clock) ==
    IF InvalidClassData(classData) THEN <<>>
    ELSE
    LET time == classData.time[1]
        dtStart == formatIcsDateTime(classData.date, time.start)
        dtEnd == formatIcsDateTime(classData.date, time.end)
        dtStamp == formatIcsDateTimeUtc(clock.date, clock.time)
        uid == generateEventUid(classData.activityId, classData.date,
            time.start, clock.year)
        summary == (IF Trim(classData.subjectCode) # <<>>
                    THEN Trim(classData.subjectCode) ELSE <<"C", "l", "a",
                        "s", "s">>)
                       \o (IF classData.isOnline THEN <<" ", "(", "O", "n",
                           "l", "i", "n", "e", ")">> ELSE <<>>)
                       \o (IF classData.isRelocated
                           THEN <<" ",
                               "[">> \o getIcsMessage("icsSummaryRelocated") \o <<"]">>
                           ELSE <<>>)
        mainParts == MainParts(classData)
        materialsParts == MaterialsParts(classData)
        allParts == mainParts
                        \o (IF materialsParts # <<>> THEN <<<<>>>> \o materialsParts ELSE <<>>)
        description == Join(allParts, <<LF>>)
        location == Trim(classData.location)
        locationStr == IF classData.isOnline
                       THEN (IF location # <<>> THEN location \o <<" ",
                           "(", "O", "n", "l", "i", "n", "e", ")">>
                             ELSE <<"O", "n", "l", "i", "n", "e">>)
                       ELSE location
    IN IF dtStart = <<>> \/ dtEnd = <<>> THEN <<>>
       ELSE <<<<"B", "E", "G", "I", "N", ":", "V", "E", "V", "E", "N",
           "T">>,
              <<"U", "I", "D", ":">> \o uid,
              <<"D", "T", "S", "T", "A", "M", "P", ":">> \o dtStamp,
              <<"D", "T", "S", "T", "A", "R", "T", ":">> \o dtStart,
              <<"D", "T", "E", "N", "D", ":">> \o dtEnd,
              <<"S", "U", "M", "M", "A", "R", "Y",
                  ":">> \o escapeIcsText(summary)>>
            \o (IF description # <<>>
                THEN <<<<"D", "E", "S", "C", "R", "I", "P", "T", "I", "O",
                    "N", ":">> \o escapeIcsText(description)>> ELSE <<>>)
            \o (IF locationStr # <<>>
                THEN <<<<"L", "O", "C", "A", "T", "I", "O", "N",
                    ":">> \o escapeIcsText(locationStr)>> ELSE <<>>)
            \o <<<<"S", "E", "Q", "U", "E", "N", "C", "E", ":", "0">>,
                 <<"S", "T", "A", "T", "U", "S", ":", "C", "O", "N", "F",
                     "I", "R", "M", "E", "D">>,
                 <<"T", "R", "A", "N", "S", "P", ":", "O", "P", "A", "Q",
                     "U", "E">>,
                 <<"B", "E", "G", "I", "N", ":", "V", "A", "L", "A", "R",
                     "M">>,
                 <<"T", "R", "I", "G", "G", "E", "R", ":", "-", "P", "T">>
                     \o String(ReminderMinutes(classData.isOnline,
                         isFirstClassOfDay))
                     \o <<"M">>,
                 <<"A", "C", "T", "I", "O", "N", ":", "D", "I", "S", "P",
                     "L", "A", "Y">>,
                 <<"D", "E", "S", "C", "R", "I", "P", "T", "I", "O", "N",
                     ":", "R", "e", "m", "i", "n", "d", "e", "r", ":",
                     " ">> \o escapeIcsText(summary),
                 <<"E", "N", "D", ":", "V", "A", "L", "A", "R", "M">>,
                 <<"E", "N", "D", ":", "V", "E", "V", "E", "N", "T">>>>

----------------------------------------------------------------------------
(* The calendar file (src/unnamed/part_003:411-544). *)

(* new Date(date + 'T' + time.start) (part_003:418-419): None for an       *)
(* invalid date (NaN),
    else the day and the minute as numbers in their     *)
(* order.                                                                  *)
DateTimeOf(classData) ==
    IF classData.date = <<>> \/ classData.time[1].start = <<>> THEN None
    ELSE Some(<<Number(ReplaceAll(classData.date, <<"-">>, <<>>)),
                Number(ReplaceAll(classData.time[1].start, <<":">>,
                    <<>>))>>)

(* dateA - dateB < 0; a comparison with NaN counts as 0 *)
DateTimeBefore(a, b) ==
    LET dateA == DateTimeOf(a)
        dateB == DateTimeOf(b)
    IN /\ dateA # None
       /\ dateB # None
       /\ \/ dateA[1][1] < dateB[1][1]
          \/ dateA[1][1] = dateB[1][1] /\ dateA[1][2] < dateB[1][2]

(* timeA.localeCompare(timeB) < 0 for times HH:MM; '' is before every time *)
TimeBefore(a, b) ==
    LET timeA == a.time[1].start
        timeB == b.time[1].start
    IN IF timeA = <<>> THEN timeB # <<>>
       ELSE /\ timeB # <<>>
            /\ Number(ReplaceAll(timeA, <<":">>,
                <<>>)) < Number(ReplaceAll(timeB, <<":">>, <<>>))

Before(by, a, b) == IF by = "dateTime" THEN DateTimeBefore(a,
    b) ELSE TimeBefore(a, b)

(* Array.prototype.sort: a stable sort; with keys that do not compare      *)
(* (NaN) the order is the one of an insertion from the right.              *)
RECURSIVE Insert(_, _, _)
Insert(by, sorted, x) ==
    IF sorted = <<>> THEN <<x>>
    ELSE IF Before(by, x, sorted[Len(sorted)])
         THEN Insert(by, SubSeq(sorted, 1, Len(sorted) - 1),
             x) \o <<sorted[Len(sorted)]>>
         ELSE Append(sorted, x)

RECURSIVE Sort(_, _)
Sort(by, classes) ==
    IF classes = <<>> THEN <<>>
    ELSE Insert(by, Sort(by, SubSeq(classes, 1, Len(classes) - 1)),
        classes[Len(classes)])

SameDate(classes, dateKey) ==
    LET OnDate(c) == c.date = dateKey IN SelectSeq(classes, OnDate)

(* classesByDate[dateKey], sorted by start time (part_003:423-440) *)
ClassesByDate(sortedClasses, dateKey) == Sort("time",
    SameDate(sortedClasses, dateKey))

(* isFirstClassOfDay (part_003:455-470) *)
IsFirstClassOfDay(sortedClasses, classData) ==
    LET dayClasses == ClassesByDate(sortedClasses, classData.date)
        firstClassOfDay == dayClasses[1]
    IN /\ firstClassOfDay.date = classData.date
       /\ firstClassOfDay.time[1].start = classData.time[1].start
       /\ firstClassOfDay.activityId = classData.activityId

RECURSIVE EventLines(_, _, _)
EventLines(sortedClasses, k, clock) ==
    IF k > Len(sortedClasses) THEN <<>>
    ELSE generateIcsEvent(sortedClasses[k],
                          IsFirstClassOfDay(sortedClasses,
                              sortedClasses[k]), clock)
             \o EventLines(sortedClasses, k + 1, clock)

CalendarHeader ==
    <<<<"B", "E", "G", "I", "N", ":", "V", "C", "A", "L", "E", "N", "D",
        "A", "R">>,
      <<"V", "E", "R", "S", "I", "O", "N", ":", "2", ".", "0">>,
      <<"P", "R", "O", "D", "I", "D", ":", "-", "/", "/", "F", "P", "T",
          "U", " ", "S", "t", "u", "d", "y", " ", "C", "a", "l", "e", "n",
          "d", "a", "r", "/", "/", "F", "P", "T", "U", " ", "S", "t", "u",
          "d", "y", " ", "C", "a", "l", "e", "n", "d", "a", "r", " ", "E",
          "x", "p", "o", "r", "t", "e", "r", "/", "/", "E", "N">>,
      <<"C", "A", "L", "S", "C", "A", "L", "E", ":", "G", "R", "E", "G",
          "O", "R", "I", "A", "N">>,
      <<"M", "E", "T", "H", "O", "D", ":", "P", "U", "B", "L", "I", "S",
          "H">>,
      <<"X", "-", "W", "R", "-", "C", "A", "L", "N", "A", "M", "E", ":",
          "F", "P", "T", "U", " ", "S", "t", "u", "d", "y", " ", "C", "a",
          "l", "e", "n", "d", "a", "r">>,
      <<"X", "-", "W", "R", "-", "C", "A", "L", "D", "E", "S", "C", ":",
          "S", "t", "u", "d", "y", " ", "s", "c", "h", "e", "d", "u", "l",
          "e", " ", "e", "x", "p", "o", "r", "t", "e", "d", " ", "f", "r",
          "o", "m", " ", "F", "P", "T", "U", " ", "F", "A", "P">>,
      <<"X", "-", "W", "R", "-", "T", "I", "M", "E", "Z", "O", "N", "E",
          ":", "A", "s", "i", "a", "/", "H", "o", "_", "C", "h", "i", "_",
          "M", "i", "n", "h">>>>

NoClassesToExport == <<"N", "o", " ", "c", "l", "a", "s", "s", "e", "s",
    " ", "t", "o", " ", "e", "x", "p", "o", "r", "t">>
TypeError == <<"T", "y", "p", "e", "E", "r", "r", "o", "r">>

IsEmptyNever(classes) == FALSE
(* !Array.isArray(classes) || classes.length === 0 (part_003:412, 521) *)
IsEmpty(classes) == Len(classes) = 0

Throw(message) == [throws |-> Some(message), content |-> None]

(* generateIcsFile (part_003:411-484).  Reading time.start of a record     *)
(* without time (418-419,
    463) throws a TypeError.                         *)
generateIcsFile(classes, clock) ==
    IF IsEmpty(classes) THEN Throw(NoClassesToExport)
    ELSE IF \E k \in 1..Len(classes) : classes[k].time = None THEN Throw(TypeError)
    ELSE LET sortedClasses == Sort("dateTime", classes)
             lines == CalendarHeader \o EventLines(sortedClasses, 1, clock)
                          \o <<<<"E", "N", "D", ":", "V", "C", "A", "L",
                              "E", "N", "D", "A", "R">>>>
             foldedLines == [k \in 1..Len(lines) |-> foldIcsLine(lines[k])]
         IN [throws |-> None, content |-> Some(Join(foldedLines,
             CRLF) \o CRLF)]

(* classes.map(c => c.date).sort() (part_003:531): the first and the last  *)
(* date in the order of strings.                                           *)
DateNumber(dateStr) == IF dateStr = <<>> THEN 0 ELSE Number(ReplaceAll(dateStr, <<"-">>, <<>>))

FirstDate(classes) ==
    IF classes = <<>> THEN <<>> ELSE
    LET k == CHOOSE i \in 1..Len(classes) :
                 \A j \in 1..Len(classes) : DateNumber(classes[i].date) <= DateNumber(classes[j].date)
    IN classes[k].date

LastDate(classes) ==
    IF classes = <<>> THEN <<>> ELSE
    LET k == CHOOSE i \in 1..Len(classes) :
                 \A j \in 1..Len(classes) : DateNumber(classes[i].date) >= DateNumber(classes[j].date)
    IN classes[k].date

(* exportToIcs (part_003:519-544) without a file name; the download        *)
(* (downloadIcsFile,
    492-512) is the pair of file name and content.        *)
exportToIcs(classes, clock) ==
    IF IsEmpty(classes) THEN [throws |-> Some(NoClassesToExport),
        download |-> None]
    ELSE LET file == generateIcsFile(classes, clock)
             startDate == IF FirstDate(classes) # <<>> THEN FirstDate(classes) ELSE clock.date
             endDate == IF LastDate(classes) # <<>> THEN LastDate(classes) ELSE startDate
             filename == <<"f", "p", "t", "u", "-", "c", "a", "l", "e",
                 "n", "d", "a", "r", "-">> \o startDate \o <<"-", "t", "o",
                 "-">> \o endDate \o <<".", "i", "c", "s">>
         IN IF file.throws # None THEN [throws |-> file.throws,
             download |-> None]
            ELSE [throws |-> None,
                  download |-> Some([filename |-> filename,
                      content |-> file.content[1]])]

MaxExport == 3

(* new Date() at the export *)
Clock == [year |-> 2026, date |-> <<"2", "0", "2", "6", "-", "1", "1", "-",
    "0", "2">>, time |-> <<"0", "2", ":", "1", "5", ":", "0", "0">>]

(* A class of the store as extractClassData writes it *)
BaseClass ==
    [subjectCode |-> <<"P", "R", "F", "1", "9", "2">>,
     date |-> <<"2", "0", "2", "5", "-", "0", "9", "-", "1", "5">>,
     time |-> Some([start |-> <<"0", "7", ":", "3", "0">>, end |-> <<"0",
         "9", ":", "0", "0">>]),
     location |-> <<"B", "E", "-", "4", "0", "1">>,
     isOnline |-> FALSE,
     meetUrl |-> None,
     edunextUrl |-> None,
     materialsUrl |-> None,
     isRelocated |-> FALSE,
     activityId |-> <<"1">>]

SlotTimes ==
    {[start |-> <<"0", "7", ":", "3", "0">>, end |-> <<"0", "9", ":", "0",
        "0">>], [start |-> <<"0", "9", ":", "1", "0">>, end |-> <<"1", "0",
        ":", "4", "0">>]}

(* Classes on two days, in two slots, online or not *)
DayClasses ==
    {[BaseClass EXCEPT !.date = d, !.time = Some(t), !.isOnline = o,
        !.activityId = a] :
        d \in {<<"2", "0", "2", "5", "-", "0", "9", "-", "1", "5">>, <<"2",
            "0", "2", "5", "-", "0", "9", "-", "1", "6">>},
            t \in SlotTimes, o \in BOOLEAN,
        a \in {<<"1">>, <<"2">>}}

(* Records that lack a date, the time or one of its ends,
    and two that     *)
(* lack nothing                                                            *)
PartialClasses ==
    {BaseClass,
     [BaseClass EXCEPT !.time = Some([start |-> <<"0", "9", ":", "1",
         "0">>, end |-> <<"1", "0", ":", "4", "0">>]),
                       !.activityId = <<"2">>],
     [BaseClass EXCEPT !.date = <<>>, !.activityId = <<"3">>],
     [BaseClass EXCEPT !.time = None, !.activityId = <<"3">>],
     [BaseClass EXCEPT !.time = Some([start |-> <<>>, end |-> <<"0", "9",
         ":", "0", "0">>]),
                       !.activityId = <<"3">>],
     [BaseClass EXCEPT !.time = Some([start |-> <<"0", "7", ":", "3",
         "0">>, end |-> <<>>]),
                       !.activityId = <<"3">>]}

(* The query of a link: '?' and n characters *)
Query(n, c) == IF n = 0 THEN <<>> ELSE <<"?">> \o [i \in 1..n |-> c]

MeetUrls ==
    {[absolute |-> abs, scheme |-> <<"h", "t", "t", "p", "s", ":", "/",
        "/">>, host |-> <<"m", "e", "e", "t", ".", "g", "o", "o", "g", "l",
        "e", ".", "c", "o", "m">>,
      pathname |-> <<"/", "a", "b", "c", "-", "d", "e", "f", "g", "-", "h",
          "i", "j">>, search |-> Query(n, c)] :
        abs \in BOOLEAN, n \in {0, 99, 100, 101}, c \in {"t", "u"}}

LinkTexts == {None, Some(<<>>), Some(<<"h", "t", "t", "p", "s", ":", "/",
    "/", "e", "/", "1">>), Some(<<"h", "t", "t", "p", "s", ":", "/", "/",
    "e", "/", "2">>)}

MaybeText(link) == IF link = None THEN None ELSE link[1]

(* Classes with links *)
LinkClasses ==
    {[BaseClass EXCEPT !.meetUrl = m, !.isOnline = (m # None),
                       !.edunextUrl = MaybeText(e),
                           !.materialsUrl = MaybeText(f)] :
        m \in {None} \cup {Some(u) : u \in MeetUrls},
        e \in LinkTexts, f \in {None, Some(<<"h", "t", "t", "p", "s", ":",
            "/", "/", "e", "/", "1">>)}}

IcsCalls ==
    [fn : {"generateIcsFile"},
     classes : UNION {[1..n -> DayClasses] : n \in 0..(MaxExport - 1)}
                   \cup UNION {[1..n -> PartialClasses] : n \in 1..MaxExport}
                   \cup {<<c>> : c \in LinkClasses},
     clock : {Clock},
     result : {None}]
    \cup
    [fn : {"exportToIcs"},
     classes : UNION {[1..n -> PartialClasses] : n \in 0..(MaxExport - 1)},
     clock : {Clock},
     result : {None}]

GenerateIcsFile ==
    /\ fnCall # None
    /\ fnCall[1].fn = "generateIcsFile"
    /\ Return(generateIcsFile(fnCall[1].classes, fnCall[1].clock))

(* The export button of the calendar page (src/unnamed/part_001:1046-1066) *)
ExportToIcs ==
    /\ fnCall # None
    /\ fnCall[1].fn = "exportToIcs"
    /\ Return(exportToIcs(fnCall[1].classes, fnCall[1].clock))

NextIcs == GenerateIcsFile \/ ExportToIcs

SpecIcs == InitCall(IcsCalls) /\ [][NextIcs]_vars

----------------------------------------------------------------------------
(* escapeIcsText on its own (part_003:32-40). *)

MaxText == 4

(* The characters the function treats specially, a letter and the letter   *)
(* of the newline escape.                                                  *)
TextChars == {"\\", ";", ",", LF, CR, "n", "a"}

EscapeCalls ==
    [fn : {"escapeIcsText"},
     text : UNION {[1..n -> TextChars] : n \in 0..MaxText},
     result : {None}]

EscapeIcsText == Return(escapeIcsText(fnCall[1].text))

NextEscape == EscapeIcsText

SpecEscape == InitCall(EscapeCalls) /\ [][NextEscape]_vars

----------------------------------------------------------------------------
(* The year control during a run (src/background.js:896-1016): the steps   *)
(* of startScraping that read or write the year dropdown of the timetable  *)
(* page, from the target year to the last week of the loop.                *)

(* getFullYear of an instant: the year of its day in local time. *)
getFullYear(t, tz) == (CHOOSE date \in AllDates : DayNumber(date) = (t + tz) \div 24).y

(* The days the popup's start date is set to. *)
StartDates ==
    {[y |-> 2025, m |-> 12, d |-> 31], [y |-> 2026, m |-> 1, d |-> 1],
     [y |-> 2026, m |-> 1, d |-> 5]}

(* The value of the year dropdown, None when the page has no dropdown. *)
YearValues == {None} \cup {Some(y) : y \in BaseYear..(BaseYear + 2)}

(* The filtered weeks by their resolved start year, relative to the        *)
(* target year: the year before for a week that spans the turn of the      *)
(* year.                                                                   *)
WeekStarts == UNION {[1..n -> {-1, 0}] : n \in 0..MaxWeeks}

YearCalls ==
    [fn : {"selectYear"},
     startDate : StartDates,
     tz : TimeZones,
     yearSelect : YearValues,
     weekStarts : WeekStarts,
     pc : {"year"},
     year : {0},
     weeksToScrape : {<<>>},
     i : {1},
     window : {None},
     yearChanges : {<<>>},
     result : {None}]

SetCall(rec) ==
    /\ fnCall' = Some(rec)
    /\ UNCHANGED <<env, tabs, storage, run, lastNotLoggedIn,
                   allClasses, currentEditingClass, lastOp, filterCall>>

AtCall(fn, pc) == fnCall # None /\ fnCall[1].fn = fn /\ fnCall[1].pc = pc

(* needsYearUpdate (src/background.js:911) *)
NeedsYearUpdate(currentYear, year) == currentYear = None \/ currentYear[1] # year

(* Steps 4-5 (src/background.js:896-930): the target year is the year of   *)
(* new Date(startDate) in local time; the script that selects the year     *)
(* does nothing on a page without the dropdown.                            *)
SelectYearValue ==
    /\ AtCall("selectYear", "year")
    /\ LET c == fnCall[1]
           year == getFullYear(DateFromString(c.startDate), c.tz)
           currentYear == c.yearSelect
           change == NeedsYearUpdate(currentYear, year) /\ c.yearSelect # None
       IN SetCall([c EXCEPT
              !.pc = "options",
              !.year = year,
              !.yearSelect = IF change THEN Some(year) ELSE @,
              !.yearChanges = IF change
                              THEN Append(@, [from |-> currentYear[1], to |-> year, at |-> "year"])
                              ELSE @])

(* Steps 6-7 (src/background.js:932-945): the week options are read and    *)
(* filtered; no script touches the year.                                   *)
ReadWeekOptions ==
    /\ AtCall("selectYear", "options")
    /\ LET c == fnCall[1] IN
       SetCall([c EXCEPT
           !.pc = "week",
           !.weeksToScrape = [k \in 1..Len(c.weekStarts) |->
                                 [value |-> k, startYear |-> c.year + c.weekStarts[k]]]])

(* The head of the loop (src/background.js:948-1016): the years for the    *)
(* parsing of dates are stored on the page's window; the dropdown is left  *)
(* alone.                                                                  *)
PinYears ==
    /\ AtCall("selectYear", "week")
    /\ LET c == fnCall[1] IN
       IF c.i > Len(c.weeksToScrape)
       THEN SetCall([c EXCEPT !.pc = "done", !.result = Some(c.yearChanges)])
       ELSE LET week == c.weeksToScrape[c.i]
                baseYearForParsing == IF week.startYear # 0 THEN week.startYear ELSE c.year
            IN SetCall([c EXCEPT
                   !.pc = "select",
                   !.window = Some([selectedYear |-> c.year, baseYear |-> baseYearForParsing])])

(* selectWeek (src/background.js:418-474) sets the week dropdown and posts *)
(* the page back, which loads a new document with the same year.           *)
SelectWeekValue ==
    /\ AtCall("selectYear", "select")
    /\ LET c == fnCall[1] IN
       SetCall([c EXCEPT !.pc = "week", !.i = @ + 1, !.window = None])

NextYear == SelectYearValue \/ ReadWeekOptions \/ PinYears \/ SelectWeekValue

SpecYear == InitCall(YearCalls) /\ [][NextYear]_vars

----------------------------------------------------------------------------
(* The date of an extracted record (src/content.js:28-31, 175-204,         *)
(* 228-269).                                                               *)

(* The years of the page (src/content.js:228-269): the value of the year   *)
(* dropdown unless the background script stored its years on the window;   *)
(* weekRange is the match of the selected week option's text.              *)
YearContext(yearSelect, window, weekRange, thisYear) ==
    LET fromPage == IF yearSelect # None THEN yearSelect[1] ELSE thisYear
        selectedYear == IF window # None THEN window[1].selectedYear ELSE fromPage
        weekSpansBoundary == weekRange # None /\ weekRange[1][1].m = 12 /\ weekRange[1][2].m = 1
        baseYear == IF window # None THEN window[1].baseYear
                    ELSE IF weekSpansBoundary THEN selectedYear - 1
                    ELSE selectedYear
    IN [selectedYear |-> selectedYear, baseYear |-> baseYear,
        weekSpansBoundary |-> weekSpansBoundary]

(* The year of a column (src/content.js:183-193). *)
DateYear(dateStr, context) ==
    IF context.weekSpansBoundary /\ dateStr.m = 1 THEN context.selectedYear
    ELSE context.baseYear

(* The record's date (src/content.js:195, 203): parseDate gives 00:00 of   *)
(* the day in local time and toISOString its day in UTC.                   *)
RecordDate(dateStr, context, tz) ==
    ToISODate(parseDate(dateStr, DateYear(dateStr, context), tz))

(* The weeks of the 2026 dropdown shown on the page, by their Monday. *)
WeekStartDays ==
    {[y |-> 2025, m |-> 12, d |-> 29], [y |-> 2026, m |-> 1, d |-> 5],
     [y |-> 2026, m |-> 12, d |-> 21]}

DateOfDay(n) == CHOOSE date \in AllDates : DayNumber(date) = n

Label(date) == [d |-> date.d, m |-> date.m]

(* The selected week's text and the label of one of its seven columns;     *)
(* the window holds the years stored by startScraping                      *)
(* (src/background.js:1007-1016) or nothing after the page was loaded      *)
(* again.                                                                  *)
DateCalls ==
    UNION {
      LET first == DateOfDay(DayNumber(start))
          last == DateOfDay(DayNumber(start) + 6)
          weekRange == Some(<<Label(first), Label(last)>>)
          spans == first.m = 12 /\ last.m = 1
      IN [fn : {"recordDate"},
          year : {BaseYear + 1},
          weekRange : {weekRange},
          dateStr : {Label(DateOfDay(DayNumber(start) + k)) : k \in 0..6},
          window : {None, Some([selectedYear |-> BaseYear + 1,
                                baseYear |-> IF spans THEN BaseYear ELSE BaseYear + 1])},
          tz : TimeZones,
          result : {None}]
      : start \in WeekStartDays }

ExtractDate ==
    /\ fnCall # None
    /\ fnCall[1].fn = "recordDate"
    /\ LET c == fnCall[1] IN
       Return(RecordDate(c.dateStr,
                         YearContext(Some(c.year), c.window, c.weekRange, c.year),
                         c.tz))

NextDate == ExtractDate

SpecDate == InitCall(DateCalls) /\ [][NextDate]_vars

----------------------------------------------------------------------------
(* Properties. *)

(* The steps that drive the tab: year select, week select, extraction. *)
Navigating(r) == run[r].pc \in {"year", "week", "select", "extract"}

Weeks(list) == {list[k].week : k \in 1..Len(list)}
WeekNumbers(list) == {list[k].weekNumber : k \in 1..Len(list)}
Count(list, w) == Cardinality({k \in 1..Len(list) : list[k].week = w})
CountData(list, w) == Cardinality({k \in 1..Len(list) : list[k].weekNumber = w})

ExtractionFailures == {"noRows", "noTable", "throws"}

(* C1: while an invocation started by a 'startScraping' message is in      *)
(* flight, a second one is rejected or queued: never are two invocations   *)
(* in their navigation steps against the same tab.                         *)
C1_NoInterleavedRuns ==
    \A r1, r2 \in Runs :
        (r1 # r2 /\ Navigating(r1) /\ Navigating(r2))
            => run[r1].timetableTab # run[r2].timetableTab

(* C2: every week gets at most MAX_RETRIES attempts; a failed attempt that *)
(* is not auth-related is retried on the same week, and the third failure  *)
(* appends exactly one {week, error} entry and moves to the next week.     *)
C2_BoundedRetries ==
    \A r \in Runs :
        LET rec == run[r] IN
        /\ rec.attempts <= MAX_RETRIES
        /\ rec.pc = "select" => rec.attempts = rec.retries /\ rec.retries < MAX_RETRIES
        /\ rec.pc = "extract" => rec.attempts = rec.retries + 1
        /\ \A w \in Weeks(rec.errors) : Count(rec.errors, w) = 1
        /\ (rec.pc = "week" /\ rec.i > 1) =>
              LET w == rec.weeksToScrape[rec.i - 1] IN
              \/ /\ w \in WeekNumbers(rec.allWeeksData)
                 /\ w \notin Weeks(rec.errors)
              \/ /\ w \notin WeekNumbers(rec.allWeeksData)
                 /\ rec.errors[Len(rec.errors)].week = w
                 /\ rec.attempts = MAX_RETRIES

C2_Witness ==
    \E r \in Runs :
        /\ run[r].pc = "week"
        /\ run[r].i = 2
        /\ run[r].attempts = MAX_RETRIES
        /\ Len(run[r].errors) = 1
        /\ Len(run[r].weeksToScrape) = 2

(* C3: an attempt that fails with an auth-like message ends the            *)
(* invocation at once with {success: false, error: 'NOT_LOGGED_IN'}: no    *)
(* further attempt, no later week, and the login cache is invalidated.     *)
C3_AuthErrorAborts ==
    \A r \in Runs :
        run[r].authError =>
            /\ run[r].pc \in {"catch", "returned"}
            /\ loginCache = None
            /\ run[r].pc = "returned" =>
                  /\ ~run[r].result[1].success
                  /\ run[r].result[1].error = MsgNotLoggedIn

(* C4: a week whose page yields an extraction failure (no schedule table,  *)
(* no parseable rows, extraction throwing) is retried and then recorded in *)
(* errors, and is never recorded in data.weeks.                            *)
C4_FailedExtractionNotInData ==
    \A r \in Runs :
        (run[r].pc = "week" /\ run[r].i > 1 /\ run[r].page \in ExtractionFailures)
            => run[r].weeksToScrape[run[r].i - 1] \notin WeekNumbers(run[r].allWeeksData)

(* C5: in a result with success: true every week of the filtered list is   *)
(* in exactly one of data.weeks and errors, and the completion event has   *)
(* successCount + errorCount = totalWeeks; weeks that failed do not make   *)
(* the result a failure.                                                   *)
C5_WeeksPartitioned ==
    \A r \in Runs :
        /\ run[r].completion # None =>
              LET c == run[r].completion[1] IN
              c.successCount + c.errorCount = c.totalWeeks
        /\ (run[r].pc = "returned" /\ run[r].result[1].success) =>
              LET res == run[r].result[1] IN
              \A k \in 1..Len(run[r].weeksToScrape) :
                  CountData(res.weeks, run[r].weeksToScrape[k])
                      + Count(res.errors, run[r].weeksToScrape[k]) = 1

C5_Witness ==
    \E r \in Runs :
        /\ run[r].pc = "returned"
        /\ run[r].result[1].success
        /\ Len(run[r].result[1].weeks) = 1
        /\ Len(run[r].result[1].errors) = 1

(* C6: the orchestrator closes a tab iff this invocation created it and    *)
(* ended in failure; a tab created by a successful invocation stays open   *)
(* and a reused tab is never closed.                                       *)
C6_TabCleanup ==
    \A r \in Runs :
        /\ run[r].pc # "returned" => run[r].removed = {}
        /\ run[r].pc = "returned" =>
              run[r].removed =
                  IF run[r].created # NoTab /\ ~run[r].result[1].success
                  THEN {run[r].created}
                  ELSE {}

C6_Witness ==
    \E r \in Runs :
        /\ run[r].pc = "returned"
        /\ run[r].created # NoTab
        /\ run[r].removed = {run[r].created}
        /\ ~run[r].result[1].success

(* C7: a cached login result is used only when it was saved less than      *)
(* LOGIN_CACHE_DURATION before the time of the look-up; an older entry is  *)
(* a miss, and a login check that misses reads the page.                   *)
C7_CacheTTL ==
    [][\A r \in Runs :
          LET fresh == /\ loginCache # None
                       /\ now - loginCache[1].timestamp < LOGIN_CACHE_DURATION
          IN /\ (run[r].pc = "init" /\ run'[r].pc = "acquire") =>
                   (run'[r].cachedLoginState # None <=> fresh)
             /\ (run[r].pc = "login" /\ run'[r].pc # "login") =>
                   /\ run'[r].loginSource = "cache" => fresh
                   /\ (run'[r].loginSource # "none" /\ ~fresh) =>
                         run'[r].loginSource \in {"page", "failed"}]_vars

C7_Witness ==
    \E r \in Runs :
        /\ run[r].pc = "acquire"
        /\ run[r].cachedLoginState = None
        /\ loginCache # None
        /\ now - loginCache[1].timestamp = LOGIN_CACHE_DURATION

(* C8: on the first run (first-run marker absent) the login check reads    *)
(* the page even when a non-expired cached state exists.                   *)
C8_FirstRunReadsPage ==
    \A r \in Runs :
        (run[r].isFirstRunFlag /\ run[r].pc \in {"navigate", "catch"}
                               /\ run[r].timetableTab = NoTab)
            => run[r].loginSource \in {"page", "failed"}

(* C9: after an invocation failed with NOT_LOGGED_IN the next one takes    *)
(* the login state from the page: when the user has logged in meanwhile it *)
(* does not fail with NOT_LOGGED_IN on a cached negative result.           *)
C9_RecheckAfterNotLoggedIn ==
    \A r \in Runs :
        (/\ lastNotLoggedIn
         /\ run[r].pc = "catch"
         /\ run[r].error = MsgNotLoggedIn
         /\ run[r].timetableTab = NoTab
         /\ PageLoggedIn(tabs[run[r].fapTab]))
            => run[r].loginSource # "cache"

(* C10: browser start-up removes the cached login state and the first-run  *)
(* marker from storage.                                                    *)
C10_StartupClearsLoginCache ==
    [][BrowserStartup => (loginCache' = None /\ firstRunCompleted' = FALSE)]_vars

IdsOf(list) == {ActivityId(list[k]) : k \in 1..Len(list)}
CountId(list, id) == Cardinality({k \in 1..Len(list) : ActivityId(list[k]) = id})
LastIndex(list, id) ==
    CHOOSE k \in 1..Len(list) :
        /\ ActivityId(list[k]) = id
        /\ \A j \in (k + 1)..Len(list) : ActivityId(list[j]) # id

(* The step is a save that merged the scraped classes into the store. *)
MergeStep ==
    /\ lastOp'.op = "save"
    /\ StrictEquals(lastOp'.mergeMode, JsString("merge"))
    /\ Len(scrapedClasses) > 0

Merged ==
    /\ lastOp.op = "save"
    /\ StrictEquals(lastOp.mergeMode, JsString("merge"))

(* C11: after any sequence of scrape-and-save, edit and delete operations  *)
(* from an empty store, no two stored records share an activityId.         *)
C11_UniqueActivityIds ==
    \A j, k \in 1..Len(scrapedClasses) :
        j # k => ActivityId(scrapedClasses[j]) # ActivityId(scrapedClasses[k])

(* C12: mergeClasses(X, X) = X for every class list X the store can hold. *)
C12_MergeIdempotent ==
    mergeClasses(scrapedClasses, scrapedClasses) = scrapedClasses

(* C13: a merge puts an incoming record whose activityId matches a stored  *)
(* record at the index of the stored one and adds no second record; the    *)
(* result has one more record for each distinct incoming activityId that   *)
(* was not stored.                                                         *)
C13_MergeInPlace ==
    [][MergeStep =>
         LET existing == scrapedClasses
             incoming == lastOp'.newClasses
             merged == scrapedClasses'
         IN /\ Len(merged) = Len(existing)
                              + Cardinality(IdsOf(incoming) \ IdsOf(existing))
            /\ \A id \in IdsOf(incoming) \cap IdsOf(existing) :
                  /\ merged[FindIndex(existing, id)] = incoming[LastIndex(incoming, id)]
                  /\ CountId(merged, id) = CountId(existing, id)]_vars

C13_Witness ==
    /\ Merged
    /\ Len(lastOp.newClasses) = 2
    /\ Len(scrapedClasses) = 2
    /\ ActivityId(lastOp.newClasses[1]) # ActivityId(lastOp.newClasses[2])
    /\ scrapedClasses[1] = lastOp.newClasses[2]
    /\ scrapedClasses[2] = lastOp.newClasses[1]

(* C14: a merge keeps every stored record whose activityId does not occur  *)
(* in the incoming list, unchanged and at its index.                       *)
C14_MergeKeepsAbsent ==
    [][MergeStep =>
         \A k \in 1..Len(scrapedClasses) :
             ActivityId(scrapedClasses[k]) \notin IdsOf(lastOp'.newClasses)
                 => /\ k <= Len(scrapedClasses')
                    /\ scrapedClasses'[k] = scrapedClasses[k]]_vars

C14_Witness ==
    /\ Merged
    /\ Len(lastOp.newClasses) = 1
    /\ Len(scrapedClasses) = 2
    /\ ActivityId(scrapedClasses[1]) \notin IdsOf(lastOp.newClasses)
    /\ scrapedClasses[2] = lastOp.newClasses[1]

(* C15: when the user chose merge in the popup and the store is not empty, *)
(* the save of a successful run stores mergeClasses(previous store,        *)
(* scraped classes).                                                       *)
C15_MergeModeMerges ==
    [][(/\ lastOp'.op = "save"
        /\ UserChoseMerge(lastOp'.mergeMode)
        /\ Len(scrapedClasses) > 0)
          => scrapedClasses' = mergeClasses(scrapedClasses, lastOp'.newClasses)]_vars

(* C16: saveEditedClass changes only the (first) record whose activityId   *)
(* is that of the class being edited; that record keeps its activityId,    *)
(* slot, edunextUrl, materialsUrl and isRelocated, and its isOnline        *)
(* becomes true with a meeting link and stays as it was without one; all   *)
(* other records are unchanged, and the result is what is stored.          *)
C16_EditFrame ==
    [][lastOp'.op = "edit" =>
         LET formData == lastOp'.formData[1]
             index == FindIndex(allClasses, ActivityId(currentEditingClass[1]))
         IN /\ Len(allClasses') = Len(allClasses)
            /\ \A k \in 1..Len(allClasses) : k # index => allClasses'[k] = allClasses[k]
            /\ index # 0 =>
                  LET old == allClasses[index]
                      new == allClasses'[index]
                  IN /\ new.activityId = ActivityId(currentEditingClass[1])
                     /\ new.activityId = old.activityId
                     /\ new.slot = old.slot
                     /\ new.edunextUrl = old.edunextUrl
                     /\ new.materialsUrl = old.materialsUrl
                     /\ new.isRelocated = old.isRelocated
                     /\ new.isOnline = IF formData.meetUrl # "" THEN TRUE ELSE old.isOnline
                     /\ old.isOnline => new.isOnline
                     /\ scrapedClasses' = allClasses']_vars

C16_Witness ==
    /\ lastOp.op = "edit"
    /\ lastOp.formData[1].meetUrl = ""
    /\ Len(allClasses) = 2
    /\ scrapedClasses = allClasses
    /\ \E k \in 1..2 :
          /\ allClasses[k].subjectCode = "B"
          /\ allClasses[k].isOnline
          /\ allClasses[k].meetUrl = None
          /\ allClasses[k].edunextUrl # None
          /\ allClasses[k].isRelocated
          /\ allClasses[3 - k].subjectCode = "A"

(* C17: a confirmed deleteClass removes exactly one record, the one being  *)
(* edited; every other record remains, unchanged and in the same order.    *)
C17_DeleteExactlyOne ==
    [][lastOp'.op = "delete" =>
         \E k \in 1..Len(allClasses) :
            /\ allClasses[k] = currentEditingClass[1]
            /\ allClasses' = SubSeq(allClasses, 1, k - 1)
                               \o SubSeq(allClasses, k + 1, Len(allClasses))
            /\ scrapedClasses' = allClasses']_vars

(* C18: every stored record has times with time.start < time.end, after    *)
(* any sequence of scrape, merge, replace and edit operations.             *)
C18_TimesOrdered ==
    \A k \in 1..Len(scrapedClasses) :
        scrapedClasses[k].time.start < scrapedClasses[k].time.end

(* The calendar day a week text part stands for, given its resolved year. *)
DayOf(dateStr, year) == DayNumber([y |-> year, m |-> dateStr.m, d |-> dateStr.d])

Filtered == filterCall # None /\ filterCall[1].result # None

(* The years the claims give to the ends of a week of the dropdown. *)
StartYearOf(option, year) ==
    IF option.match[1][1].m = 12 /\ option.match[1][2].m = 1 THEN year - 1 ELSE year

(* C19: filterWeeksByRange returns a week option iff its text is a week    *)
(* and its days [start, end] intersect the days [startDate, endDate], both *)
(* ends included: a week whose last day is startDate, or whose first day   *)
(* is endDate, is returned.                                                *)
C19_FilterInclusive ==
    Filtered =>
        LET call == filterCall[1]
            result == call.result[1]
            returned == {result[k].value : k \in 1..Len(result)}
        IN \A j \in 1..Len(call.weekOptions) :
              LET option == call.weekOptions[j] IN
              option.value \in returned <=>
                  /\ option.match # None
                  /\ DayOf(option.match[1][1], StartYearOf(option, call.year))
                        <= DayNumber(call.endDate)
                  /\ DayOf(option.match[1][2], call.year) >= DayNumber(call.startDate)

(* C20: for dropdown year Y a returned week from month 12 to month 1 has   *)
(* start year Y-1 and end year Y, any other week has year Y at both ends;  *)
(* startDate and endDate are these days ('29/12 To 04/01' with Y = 2026    *)
(* gives 2025-12-29 and 2026-01-04), and start <= end.                     *)
C20_YearBoundary ==
    Filtered =>
        LET call == filterCall[1]
            result == call.result[1]
        IN \A k \in 1..Len(result) :
              LET week == result[k]
                  option == [value |-> week.value, match |-> week.text]
              IN /\ week.startYear = StartYearOf(option, call.year)
                 /\ week.endYear = call.year
                 /\ week.startDate = [y |-> week.startYear, m |-> week.text[1][1].m,
                                      d |-> week.text[1][1].d]
                 /\ week.endDate = [y |-> week.endYear, m |-> week.text[1][2].m,
                                    d |-> week.text[1][2].d]
                 /\ DayNumber(week.startDate) <= DayNumber(week.endDate)

(* The entries of the cells of a page, in the order of the page. *)
RECURSIVE EntriesOf(_)
EntriesOf(cells) ==
    IF cells = <<>> THEN <<>> ELSE Head(cells).entries \o EntriesOf(Tail(cells))

WellFormed(entry) == entry.timeStr # None

(* C21: extractScheduleData drops an entry whose time label is not of the  *)
(* form (H:MM-H:MM) and returns every other entry of the page, in order,   *)
(* each with its own link and time.                                        *)
C21_MalformedEntryDropped ==
    Returned("extractScheduleData") =>
        LET valid == SelectSeq(EntriesOf(fnCall[1].page.cells), WellFormed)
            result == fnCall[1].result[1]
        IN /\ Len(result) = Len(valid)
           /\ \A k \in 1..Len(valid) :
                 /\ result[k].activityId = extractClassData(valid[k])[1].activityId
                 /\ result[k].time = parseTime(valid[k].timeStr)[1]

(* The line a folded line stands for: every CRLF followed by one space     *)
(* removed.                                                                *)
Unfold(folded) == ReplaceAll(folded, CRLF \o <<SP>>, <<>>)

(* C23: for a line without CRLF, removing every CRLF-plus-space from       *)
(* foldIcsLine(line) gives the line back, and a line of at most 75         *)
(* characters is returned unchanged.                                       *)
C23_FoldRoundTrip ==
    (Returned("foldIcsLine") /\ ~StrIncludes(fnCall[1].line, CRLF)) =>
        /\ Unfold(fnCall[1].result[1]) = fnCall[1].line
        /\ Len(fnCall[1].line) <= MAX_LINE_LENGTH => fnCall[1].result[1] = fnCall[1].line

C23_Witness ==
    /\ Returned("foldIcsLine")
    /\ ~StrIncludes(fnCall[1].line, CRLF)
    /\ Len(fnCall[1].line) = 2 * MAX_LINE_LENGTH
    /\ Len(Split(fnCall[1].result[1], CRLF)) = 3

(* C24: every physical segment of foldIcsLine's output, for a line with or *)
(* without CRLF, has at most 75 characters.                                *)
C24_SegmentsWithinLimit ==
    Returned("foldIcsLine") =>
        LET segments == Split(fnCall[1].result[1], CRLF) IN
        \A k \in 1..Len(segments) : Len(segments[k]) <= MAX_LINE_LENGTH

(* The content lines of a calendar file, unfolded. *)
FileLines(content) ==
    LET unfolded == Unfold(content) IN
    Split(SubSeq(unfolded, 1, Len(unfolded) - Len(CRLF)), CRLF)

IndexOfLine(lines, line, from) ==
    LET found == {i \in from..Len(lines) : lines[i] = line}
    IN IF found = {} THEN 0 ELSE CHOOSE i \in found : \A j \in found : i <= j

(* The VEVENT blocks of the lines, in their order. *)
RECURSIVE EventsFrom(_, _)
EventsFrom(lines, from) ==
    LET begin == IndexOfLine(lines, <<"B", "E", "G", "I", "N", ":", "V",
        "E", "V", "E", "N", "T">>, from)
        end == IndexOfLine(lines, <<"E", "N", "D", ":", "V", "E", "V", "E",
            "N", "T">>, begin)
    IN IF begin = 0 \/ end = 0 THEN <<>>
       ELSE <<SubSeq(lines, begin, end)>> \o EventsFrom(lines, end + 1)

EventsOf(result) == EventsFrom(FileLines(result.content[1]), 1)

(* The lines of an event that begin with `name'. *)
Property(event, name) ==
    LET Named(line) == StartsWith(line, name) IN SelectSeq(event, Named)

(* The local date and time of a record as digits, YYYYMMDDTHHMM00. *)
Floating(dateStr, timeStr) ==
    ReplaceAll(dateStr, <<"-">>, <<>>) \o <<"T">> \o ReplaceAll(timeStr,
        <<":">>, <<>>) \o <<"0", "0">>

(* The event is the one of the record: its UID, start, end and summary. *)
EventOf(event, classData) ==
    /\ Property(event, <<"U", "I", "D", ":">>)
           = <<<<"U", "I", "D",
               ":">> \o generateEventUid(classData.activityId,
               classData.date,
                                             classData.time[1].start,
                                                 Clock.year)>>
    /\ Property(event, <<"D", "T", "S", "T", "A", "R", "T">>)
           = <<<<"D", "T", "S", "T", "A", "R", "T",
               ":">> \o Floating(classData.date, classData.time[1].start)>>
    /\ Property(event, <<"D", "T", "E", "N", "D">>)
           = <<<<"D", "T", "E", "N", "D", ":">> \o Floating(classData.date,
               classData.time[1].end)>>
    /\ StrIncludes(Property(event, <<"S", "U", "M", "M", "A", "R", "Y",
        ":">>)[1], <<" ", "(", "O", "n", "l", "i", "n", "e",
        ")">>) <=> classData.isOnline

HasAll(classData) == ~InvalidClassData(classData)

Generated == Returned("generateIcsFile") /\ fnCall[1].result[1].throws = None

(* The records of the call that start earlier on the date of `classData'. *)
EarlierOnDate(classes, classData) ==
    {k \in 1..Len(classes) :
        /\ classes[k].date = classData.date
        /\ TimeBefore(classes[k], classData)}

(* The records of the call, other than the k-th, that do not start later. *)
NotLaterOnDate(classes, k) ==
    {j \in 1..Len(classes) :
        /\ j # k
        /\ classes[j].date = classes[k].date
        /\ ~TimeBefore(classes[k], classes[j])}

Trigger(event) == Property(event, <<"T", "R", "I", "G", "G", "E", "R",
    ":">>)

C25_FloatingTimes ==
    (Generated /\ \A k \in 1..Len(fnCall[1].classes) : HasAll(fnCall[1].classes[k])) =>
        LET classes == fnCall[1].classes
            events == EventsOf(fnCall[1].result[1])
        IN /\ Len(events) = Len(classes)
           /\ \E perm \in Permutations(1..Len(classes)) :
                 \A k \in 1..Len(classes) :
                    LET event == events[perm[k]]
                        classData == classes[k]
                    IN /\ Property(event, <<"D", "T", "S", "T", "A", "R",
                        "T">>)
                           = <<<<"D", "T", "S", "T", "A", "R", "T", ":">>
                                 \o Floating(classData.date,
                                     classData.time[1].start)>>
                       /\ Property(event, <<"D", "T", "E", "N", "D">>)
                           = <<<<"D", "T", "E", "N", "D",
                               ":">> \o Floating(classData.date,
                               classData.time[1].end)>>

(* 2025-09-15 from 07:30 to 09:00 *)
C25_Witness ==
    /\ Generated
    /\ fnCall[1].classes = <<BaseClass>>
    /\ Property(EventsOf(fnCall[1].result[1])[1], <<"D", "T">>)
           = <<<<"D", "T", "S", "T", "A", "M", "P", ":", "2", "0", "2",
               "6", "1", "1", "0", "2", "T", "0", "2", "1", "5", "0", "0",
               "Z">>, <<"D", "T", "S", "T", "A", "R", "T", ":", "2", "0",
               "2", "5", "0", "9", "1", "5", "T", "0", "7", "3", "0", "0",
               "0">>,
               <<"D", "T", "E", "N", "D", ":", "2", "0", "2", "5", "0",
                   "9", "1", "5", "T", "0", "9", "0", "0", "0", "0">>>>

(* C26: generateIcsFile does not fail on a list with a record that lacks   *)
(* its date, its time,
    time.start or time.end; the events of its output    *)
(* are those of the other records,
    one each.                               *)
C26_PartialRecordSkipped ==
    Returned("generateIcsFile") /\ fnCall[1].classes # <<>> =>
        /\ fnCall[1].result[1].throws = None
        /\ LET classes == SelectSeq(fnCall[1].classes, HasAll)
               events == EventsOf(fnCall[1].result[1])
           IN /\ Len(events) = Len(classes)
              /\ \E perm \in Permutations(1..Len(classes)) :
                    \A k \in 1..Len(classes) : EventOf(events[perm[k]],
                        classes[k])

(* C27: generateIcsFile and exportToIcs throw 'No classes to export' for   *)
(* an empty list; there is no calendar text and no download.               *)
C27_EmptyExportRejected ==
    /\ (Returned("generateIcsFile") /\ fnCall[1].classes = <<>>) =>
           fnCall[1].result[1] = [throws |-> Some(NoClassesToExport),
               content |-> None]
    /\ (Returned("exportToIcs") /\ fnCall[1].classes = <<>>) =>
           fnCall[1].result[1] = [throws |-> Some(NoClassesToExport),
               download |-> None]

C27_Witness ==
    /\ Returned("exportToIcs")
    /\ fnCall[1].classes = <<>>
    /\ fnCall[1].result[1].throws # None

NonEmptyLinks == {<<"h", "t", "t", "p", "s", ":", "/", "/", "e", "/",
    "1">>, <<"h", "t", "t", "p", "s", ":", "/", "/", "e", "/", "2">>,
    <<"h", "t", "t", "p", "s", ":", "/", "/", "f", "l", "m", "/", "3">>}

HasLink(text) == text # None /\ text # <<>>

LongQuery(meetUrl) ==
    meetUrl # None /\ meetUrl[1].absolute /\ Len(meetUrl[1].search) - 1 > 100

Reverse(seq) == [k \in 1..Len(seq) |-> seq[Len(seq) + 1 - k]]

(* The UID and the trigger of every event. *)
Alarms(result) ==
    LET events == EventsOf(result) IN
    {<<Property(events[k], <<"U", "I", "D", ":">>),
        Trigger(events[k])>> : k \in 1..Len(events)}

(* C30: the events that get the alarm of 30 minutes are the same for a     *)
(* list of classes and for the list in the opposite order,
    also when       *)
(* classes of one date share the earliest start time.                      *)
C30_TieBrokenByActivityId ==
    (Generated /\ \A k \in 1..Len(fnCall[1].classes) : HasAll(fnCall[1].classes[k])) =>
        Alarms(fnCall[1].result[1])
            = Alarms(generateIcsFile(Reverse(fnCall[1].classes),
                fnCall[1].clock))

(* C29: every run of startScraping that has started eventually returns a   *)
(* result, whatever the user does, as long as the browser API calls        *)
(* return: no wait for a page load inside the run lasts forever.           *)
C29_RunReturns == (run[1].pc = "init") ~> (run[1].pc = "returned")

(* The escapes of RFC 5545 undone from left to right: a backslash and the  *)
(* character after it stand for that character, or for a line feed when    *)
(* the character is n.                                                     *)
RECURSIVE Unescape(_)
Unescape(text) ==
    IF text = <<>> THEN <<>>
    ELSE IF text[1] = "\\" /\ Len(text) >= 2
    THEN <<IF text[2] = "n" THEN LF ELSE text[2]>> \o Unescape(SubSeq(text, 3, Len(text)))
    ELSE <<text[1]>> \o Unescape(SubSeq(text, 2, Len(text)))

(* C31: the output of escapeIcsText holds no carriage return and no line   *)
(* feed, and undoing the escapes gives the input without its carriage      *)
(* returns.                                                                *)
C31_EscapeRoundTrip ==
    Returned("escapeIcsText") =>
        LET escaped == fnCall[1].result[1] IN
        /\ \A k \in 1..Len(escaped) : escaped[k] \notin {CR, LF}
        /\ Unescape(escaped) = ReplaceAll(fnCall[1].text, <<CR>>, <<>>)

C31_Witness ==
    /\ Returned("escapeIcsText")
    /\ fnCall[1].text = <<"\\", CR, "n", LF>>
    /\ fnCall[1].result[1] = <<"\\", "\\", "n", "\\", "n">>

(* The place of a week in the filtered list. *)
Position(weeks, w) == CHOOSE j \in 1..Len(weeks) : weeks[j] = w

(* The weeks of data.weeks are weeks of the filtered list before place i,  *)
(* in the order of that list.                                              *)
InListOrder(data, weeks, i) ==
    /\ \A k \in 1..Len(data) :
          \E j \in 1..Len(weeks) : j < i /\ weeks[j] = data[k].weekNumber
    /\ \A k, l \in 1..Len(data) :
          k < l => Position(weeks, data[k].weekNumber) < Position(weeks, data[l].weekNumber)

(* The loop moves from week i to week i + 1 with week i in data.weeks or   *)
(* with its retries exhausted.                                             *)
MovesOn(r) ==
    (run'[r].i # run[r].i /\ run'[r].pc \notin {"idle", "init"}) =>
        /\ run'[r].i = run[r].i + 1
        /\ \/ /\ Len(run'[r].allWeeksData) = Len(run[r].allWeeksData) + 1
              /\ run'[r].allWeeksData[Len(run'[r].allWeeksData)].weekNumber
                    = run[r].weeksToScrape[run[r].i]
           \/ /\ run'[r].retries = MAX_RETRIES
              /\ run'[r].allWeeksData = run[r].allWeeksData

(* C32: weeks are processed one at a time in the order of the filtered     *)
(* list: an attempt is made on week i only, the loop reaches week i + 1    *)
(* only when week i has succeeded or exhausted its retries, and            *)
(* data.weeks lists the successful weeks in the order of the list.         *)
C32_WeeksInOrder ==
    /\ [](\A r \in Runs :
            /\ InListOrder(run[r].allWeeksData, run[r].weeksToScrape, run[r].i)
            /\ run[r].pc \in {"select", "extract"} =>
                  /\ run[r].i <= Len(run[r].weeksToScrape)
                  /\ run[r].weeksToScrape[run[r].i] \notin WeekNumbers(run[r].allWeeksData)
                  /\ run[r].weeksToScrape[run[r].i] \notin Weeks(run[r].errors)
            /\ (run[r].pc = "returned" /\ run[r].result[1].success) =>
                  run[r].result[1].weeks = run[r].allWeeksData)
    /\ [][\A r \in Runs : MovesOn(r)]_vars

C32_Witness ==
    \E r \in Runs :
        /\ run[r].pc = "returned"
        /\ run[r].result[1].success
        /\ Len(run[r].result[1].weeks) = 2
        /\ run[r].result[1].weeks[1].weekNumber = run[r].weeksToScrape[1]
        /\ run[r].result[1].weeks[2].weekNumber = run[r].weeksToScrape[2]

(* The year of a date string as the user reads it. *)
YearOf(date) == date.y

(* C33: a run changes the year dropdown at most once, only when its value  *)
(* differs from the year of the start date or cannot be read, and only     *)
(* before the week options are read; no change is issued once the loop     *)
(* over the weeks has begun.                                               *)
C33_YearChangedOnce ==
    (fnCall # None /\ fnCall[1].fn = "selectYear") =>
        LET c == fnCall[1] IN
        /\ Len(c.yearChanges) <= 1
        /\ \A k \in 1..Len(c.yearChanges) :
              /\ c.yearChanges[k].at = "year"
              /\ c.yearChanges[k].from # YearOf(c.startDate)

(* C34: the date of a record has the day and month of its column's label   *)
(* and the resolved year: in a week from December to January the year      *)
(* before the dropdown's for a December label and the dropdown's for a     *)
(* January label, otherwise the dropdown's year.                           *)
C34_RecordDate ==
    Returned("recordDate") =>
        LET c == fnCall[1]
            date == c.result[1]
            spans == c.weekRange[1][1].m = 12 /\ c.weekRange[1][2].m = 1
        IN /\ date.d = c.dateStr.d
           /\ date.m = c.dateStr.m
           /\ date.y = IF spans /\ c.dateStr.m = 12 THEN c.year - 1 ELSE c.year

(* The record of an invocation without what tells whether its messages     *)
(* were received.                                                          *)
WithoutDelivery(rec) == [rec EXCEPT !.listener = TRUE, !.undelivered = FALSE]

(* C35: a run does the same with and without a popup to receive its        *)
(* progress, completion and response messages: a message that nobody       *)
(* receives leaves the invocation where a received one leaves it, is never *)
(* the run's error, never keeps the run from its next step, and the        *)
(* classes of a successful result are saved all the same.                  *)
C35_ListenerAbsent ==
    /\ [](\A r \in Runs :
            /\ run[r].error # MsgNoReceiver
            /\ run[r].result # None => run[r].result[1].error # MsgNoReceiver
            /\ run[r].pc \in {"week", "complete"} =>
                  WithoutDelivery(SendToPopup(run[r], FALSE))
                      = WithoutDelivery(SendToPopup(run[r], TRUE))
            /\ (r = 1 /\ run[r].pc # "idle" /\ ~run[r].listener) => ENABLED StepListener(r))
    /\ [][\A r \in Runs :
            (run[r].pc = "returned" /\ run'[r].pc = "respond" /\ run[r].result[1].success)
                => scrapedClasses' = saveScrapedClasses(run[r].result[1].weeks, run[r].mergeMode)]_vars

C35_Witness ==
    \E r \in Runs :
        /\ run[r].pc = "answered"
        /\ ~run[r].listener
        /\ run[r].undelivered
        /\ run[r].result[1].success
        /\ Len(run[r].result[1].weeks) = 2
        /\ run[r].saved
        /\ Len(scrapedClasses) = 2

C36_VerifiedBeforeWeeks ==
    \A r \in Runs :
        /\ (\/ run[r].pc \in {"select", "extract"}
            \/ run[r].attempts > 0
            \/ Len(run[r].allWeeksData) > 0) => run[r].verified = Some(TRUE)
        /\ run[r].verified = Some(FALSE) =>
              /\ run[r].pc \in {"catch", "returned"}
              /\ loginCache = None
              /\ run[r].pc = "returned" =>
                    /\ ~run[r].result[1].success
                    /\ run[r].result[1].error = MsgNotLoggedIn

(* C37: a run that ends with success: false leaves the stored              *)
(* scrapedClasses as they were, in replace mode and in merge mode: the     *)
(* store changes in no step of an invocation but the save of a successful  *)
(* result.                                                                 *)
C37_FailedRunKeepsStore ==
    [][\A r \in Runs :
          (run'[r] # run[r] /\ ~(run[r].pc = "returned" /\ run[r].result[1].success))
              => scrapedClasses' = scrapedClasses]_vars

C37_Witness ==
    /\ run[1].pc = "idle"
    /\ lastNotLoggedIn
    /\ Len(scrapedClasses) > 0

(* C39: an edit or a delete on the calendar page keeps every record of     *)
(* storage but the one it is about, also the records a scrape saved after  *)
(* the page was opened.                                                    *)
C39_NoLostUpdate ==
    [][(lastOp'.op \in {"edit", "delete"} /\ scrapedClasses' # scrapedClasses) =>
          \A k \in 1..Len(scrapedClasses) :
              ActivityId(scrapedClasses[k]) # ActivityId(currentEditingClass[1]) =>
                  \E j \in 1..Len(scrapedClasses') : scrapedClasses'[j] = scrapedClasses[k]]_vars

====
